---- MODULE Spec2Model ----
(***************************************************************************)
(* Deeplodocus: the checkpoint Saver (callbacks/saver.py) and the Trainer  *)
(* epoch loop (core/inference/trainer.py, generic_inferer.py).             *)
(*                                                                         *)
(* Two specifications share the variables:                                 *)
(*   SaverSpec  the Saver as a component: the Thalamus delivers events to  *)
(*              the receivers the Saver connected in __init__, and the     *)
(*              Saver's methods are invoked directly;                      *)
(*   Spec       one training session: Trainer.fit driving the epoch loop,  *)
(*              the callbacks and the interactive prompts.                 *)
(***************************************************************************)
EXTENDS Integers, Sequences, FiniteSets, TLC

\* ------------------------------------------------------------------ bounds
MaxValue == 2
MaxObs == 3
MaxSaveCalls == 2
MaxTotalEpochs == 3
MaxNumEpochs == 2
MaxLength == 2
MaxBatchSize == 2
CheckedLength == 12
CheckedBatchSize == 4
MaxQueue == 2
MaxItems == 3
MaxSeqLen == 2
MaxObjects == 9
MaxFields == 3
MaxCommands == 3

\* ----------------------------------------------------------------- strings
\* A str is a sequence of one-character strings, so that lower() and int()
\* are computed character by character.
Str_y == <<"y">>
Str_n == <<"n">>
Str_pytorch == <<"p", "y", "t", "o", "r", "c", "h">>
Str_onnx == <<"o", "n", "n", "x">>
Str_empty == <<>>

\* str.lower() on one character (the letters that occur in the answers).
LowerChar(c) ==
    CASE c = "Y" -> "y"
      [] c = "N" -> "n"
      [] c = "P" -> "p"
      [] c = "O" -> "o"
      [] c = "X" -> "x"
      [] OTHER -> c

Lower(s) == [i \in DOMAIN s |-> LowerChar(s[i])]

\* Python's `a or b` on two str: a when a is non-empty, b otherwise.
PyOr(a, b) == IF Len(a) > 0 THEN a ELSE b

Digits == {"0", "1", "2", "3", "4", "5", "6", "7", "8", "9"}

DigitValue(c) ==
    CASE c = "0" -> 0 [] c = "1" -> 1 [] c = "2" -> 2 [] c = "3" -> 3
      [] c = "4" -> 4 [] c = "5" -> 5 [] c = "6" -> 6 [] c = "7" -> 7
      [] c = "8" -> 8 [] c = "9" -> 9

RECURSIVE Strip(_)
\* str.strip() for blanks, as int() applies it before parsing.
Strip(s) ==
    IF Len(s) > 0 /\ s[1] = " " THEN Strip(Tail(s))
    ELSE IF Len(s) > 0 /\ s[Len(s)] = " " THEN Strip(SubSeq(s, 1, Len(s) - 1))
    ELSE s

RECURSIVE DigitsValue(_)
DigitsValue(s) ==
    IF Len(s) = 0 THEN 0
    ELSE 10 * DigitsValue(SubSeq(s, 1, Len(s) - 1)) + DigitValue(s[Len(s)])

Unsigned(s) == IF Len(s) > 0 /\ s[1] \in {"+", "-"} THEN Tail(s) ELSE s

\* int(s) raises ValueError exactly when s is not [blank]* [+-]? digit+ [blank]*
IntRaisesValueError(s) ==
    LET u == Unsigned(Strip(s))
    IN Len(u) = 0 \/ \E i \in DOMAIN u : u[i] \notin Digits

\* int(s) for a str that parses
Int_(s) ==
    LET t == Strip(s)
        v == DigitsValue(Unsigned(t))
    IN IF Len(t) > 0 /\ t[1] = "-" THEN 0 - v ELSE v

\* The lines an operator can type at the prompts of the Saver
SaverAnswers ==
    { Str_y, <<"Y">>, Str_n, <<"N">>, Str_empty, <<"x">>,
      Str_pytorch, Str_onnx, <<"O", "N", "N", "X">> }

\* The lines an operator can type at the prompts of the Trainer
TrainerAnswers ==
    { Str_y, <<"Y">>, Str_n, <<"N">>, Str_empty, <<"x">>,
      <<"0">>, <<"1">>, <<"2">>, <<"-", "1">>, <<" ", "0">>, <<"1", ".", "5">> }

\* ------------------------------------------------------------------- Saver
None == [is_none |-> TRUE]

SaveConditions ==
    {"DEEP_SAVE_CONDITION_END_EPOCH", "DEEP_SAVE_CONDITION_AUTO",
     "DEEP_SAVE_CONDITION_END_TRAINING"}

SaveMethods == {"DEEP_SAVE_NET_FORMAT_PYTORCH", "DEEP_SAVE_NET_FORMAT_ONNX"}

CompareModes == {"DEEP_COMPARE_SMALLER", "DEEP_COMPARE_BIGGER", "DEEP_COMPARE_OTHER"}

\* OverWatchMetric objects: get_condition() and get_value()
OverWatchMetrics == [condition : CompareModes, value : 0..MaxValue]

Directories == {<<"weights", "/">>, <<"weights">>}

VARIABLES
    save_method, save_condition, directory, name, best_overwatch_metric,
    extension, save_model_method,
    signals,        \* Thalamus: the signals added by the Saver, oldest first
    notifs,         \* the notifications of the latest operation, in order
    proc,           \* "running" | "exited" | "crashed"
    exc,            \* the exception that left the latest operation, or "none"
    saver_pc,       \* the prompt __handle_error_saving waits at, or "idle"
    response,       \* the line read last at a prompt
    op,             \* the operation that ran last
    cur_metric,     \* the current_overwatch_metric of the latest observation
    n_obs,          \* calls of is_saving_required
    save_calls,     \* calls of save_model
    writes,         \* serializations that succeeded
    last_path       \* the filepath of the latest save_model call

saver_vars ==
    <<save_method, save_condition, directory, name, best_overwatch_metric,
      extension, save_model_method, signals, notifs, proc, exc, saver_pc,
      response, op, cur_metric, n_obs, save_calls, writes, last_path>>

\* The Saver object (and the bookkeeping around it) as one value, so that a
\* method that calls another method is a composition of operators.
Self ==
    [save_method |-> save_method, save_condition |-> save_condition,
     directory |-> directory, name |-> name,
     best_overwatch_metric |-> best_overwatch_metric,
     extension |-> extension, save_model_method |-> save_model_method,
     signals |-> signals, notifs |-> <<>>, proc |-> proc, exc |-> "none",
     saver_pc |-> saver_pc, response |-> response, op |-> op,
     cur_metric |-> cur_metric, n_obs |-> n_obs, save_calls |-> save_calls,
     writes |-> writes, last_path |-> last_path]

Commit(s) ==
    /\ save_method' = s.save_method
    /\ save_condition' = s.save_condition
    /\ directory' = s.directory
    /\ name' = s.name
    /\ best_overwatch_metric' = s.best_overwatch_metric
    /\ extension' = s.extension
    /\ save_model_method' = s.save_model_method
    /\ signals' = s.signals
    /\ notifs' = s.notifs
    /\ proc' = s.proc
    /\ exc' = s.exc
    /\ saver_pc' = s.saver_pc
    /\ response' = s.response
    /\ op' = s.op
    /\ cur_metric' = s.cur_metric
    /\ n_obs' = s.n_obs
    /\ save_calls' = s.save_calls
    /\ writes' = s.writes
    /\ last_path' = s.last_path

\* Notification(type, message)
Notification(s, type, msg) ==
    [s EXCEPT !.notifs = Append(@, [type |-> type, msg |-> msg])]

\* Notification(DEEP_NOTIF_FATAL, message): reported, and the process exits
NotificationFatal(s, msg) ==
    [Notification(s, "DEEP_NOTIF_FATAL", msg) EXCEPT !.proc = "exited"]

\* An exception leaves the running operation and nothing catches it.
Raise(s, e) == [s EXCEPT !.exc = e, !.proc = "crashed", !.saver_pc = "idle"]

\* add_signal putting the signal on the queue twice
add_signal_twice(s, signal) ==
    [s EXCEPT !.signals = Append(Append(@, signal), signal)]

\* Thalamus().add_signal(signal)
add_signal(s, signal) == [s EXCEPT !.signals = Append(@, signal)]

\* Saver.__init__: the extension follows the save method
InitExtension(method) ==
    IF method = "DEEP_SAVE_NET_FORMAT_ONNX" THEN ".onnx" ELSE ".model"

\* is_saving_required with the comparisons made non-strict
is_saving_required_nonstrict(s, m) ==
    LET s0 == [s EXCEPT !.cur_metric = m, !.n_obs = @ + 1]
        s1 == IF s0.best_overwatch_metric = None
              THEN [s0 EXCEPT !.best_overwatch_metric = m]
              ELSE s0
        best == s1.best_overwatch_metric
        SavingRequired(save) ==
            [event |-> "DEEP_EVENT_SAVING_REQUIRED", saving_required |-> save]
    IN  IF m.condition = "DEEP_COMPARE_SMALLER"
        THEN IF best.value >= m.value
             THEN add_signal([s1 EXCEPT !.best_overwatch_metric = m],
                             SavingRequired(TRUE))
             ELSE add_signal(s1, SavingRequired(FALSE))
        ELSE IF m.condition = "DEEP_COMPARE_BIGGER"
        THEN IF best.value =< m.value
             THEN add_signal([s1 EXCEPT !.best_overwatch_metric = m],
                             SavingRequired(TRUE))
             ELSE add_signal(s1, SavingRequired(FALSE))
        ELSE NotificationFatal(s1, "The following saving condition does not exist : test")

\* is_saving_required adopting every observed metric as the best one
is_saving_required_adopts(s, m) ==
    LET s0 == [s EXCEPT !.cur_metric = m, !.n_obs = @ + 1]
        s1 == [s0 EXCEPT !.best_overwatch_metric = m]
        best == s1.best_overwatch_metric
        SavingRequired(save) ==
            [event |-> "DEEP_EVENT_SAVING_REQUIRED", saving_required |-> save]
    IN  IF m.condition = "DEEP_COMPARE_SMALLER"
        THEN IF best.value > m.value
             THEN add_signal([s1 EXCEPT !.best_overwatch_metric = m],
                             SavingRequired(TRUE))
             ELSE add_signal(s1, SavingRequired(FALSE))
        ELSE IF m.condition = "DEEP_COMPARE_BIGGER"
        THEN IF best.value < m.value
             THEN add_signal([s1 EXCEPT !.best_overwatch_metric = m],
                             SavingRequired(TRUE))
             ELSE add_signal(s1, SavingRequired(FALSE))
        ELSE NotificationFatal(s1, "The following saving condition does not exist : test")

\* is_saving_required reporting an unknown comparison mode only when a best
\* metric is already held
is_saving_required_lenient(s, m) ==
    LET s0 == [s EXCEPT !.cur_metric = m, !.n_obs = @ + 1]
        s1 == IF s0.best_overwatch_metric = None
              THEN [s0 EXCEPT !.best_overwatch_metric = m]
              ELSE s0
        best == s1.best_overwatch_metric
        SavingRequired(save) ==
            [event |-> "DEEP_EVENT_SAVING_REQUIRED", saving_required |-> save]
    IN  IF m.condition = "DEEP_COMPARE_SMALLER"
        THEN IF best.value > m.value
             THEN add_signal([s1 EXCEPT !.best_overwatch_metric = m],
                             SavingRequired(TRUE))
             ELSE add_signal(s1, SavingRequired(FALSE))
        ELSE IF m.condition = "DEEP_COMPARE_BIGGER"
        THEN IF best.value < m.value
             THEN add_signal([s1 EXCEPT !.best_overwatch_metric = m],
                             SavingRequired(TRUE))
             ELSE add_signal(s1, SavingRequired(FALSE))
        ELSE IF s0.best_overwatch_metric = None
        THEN add_signal(s1, SavingRequired(FALSE))
        ELSE NotificationFatal(s1, "The following saving condition does not exist : test")

\* Saver.is_saving_required(current_overwatch_metric)
is_saving_required(s, m) ==
    LET s0 == [s EXCEPT !.cur_metric = m, !.n_obs = @ + 1]
        \* Do not save at the first epoch
        s1 == IF s0.best_overwatch_metric = None
              THEN [s0 EXCEPT !.best_overwatch_metric = m]
              ELSE s0
        best == s1.best_overwatch_metric
        SavingRequired(save) ==
            [event |-> "DEEP_EVENT_SAVING_REQUIRED", saving_required |-> save]
    IN  IF m.condition = "DEEP_COMPARE_SMALLER"
        THEN IF best.value > m.value
             THEN add_signal([s1 EXCEPT !.best_overwatch_metric = m],
                             SavingRequired(TRUE))
             ELSE add_signal(s1, SavingRequired(FALSE))
        ELSE IF m.condition = "DEEP_COMPARE_BIGGER"
        THEN IF best.value < m.value
             THEN add_signal([s1 EXCEPT !.best_overwatch_metric = m],
                             SavingRequired(TRUE))
             ELSE add_signal(s1, SavingRequired(FALSE))
        ELSE NotificationFatal(s1, "The following saving condition does not exist : test")

\* What a call of is_saving_required evaluates to: the method has no return
\* statement.
is_saving_required_value == "None"

\* torch.save / torch.onnx._export inside save_model: TRUE when the file was
\* written. io_ok is the file system's answer. The ONNX call names
\* input_names and output_names, which are bound nowhere: evaluating the
\* arguments raises NameError before anything is written.
Serialized(s, io_ok) ==
    IF s.save_method = "DEEP_SAVE_NET_FORMAT_PYTORCH" THEN io_ok ELSE FALSE

\* a recovery that comes back to save_model without having saved
handle_error_saving_returns(s) == s

\* self.__handle_error_saving(model) as save_model calls it: the method
\* takes (name, model), so the call raises TypeError.
handle_error_saving_call1(s) == Raise(s, "TypeError")

\* a save_model whose file name carries the number of the call
FilePath_numbered(s) ==
    s.directory \o <<s.name>> \o <<s.save_calls>> \o <<s.extension>>

\* filepath = self.directory + self.name + self.extension
FilePath(s) == s.directory \o <<s.name>> \o <<s.extension>>

\* Saver.save_model(model)
save_model(s, io_ok) ==
    LET filepath == FilePath(s)
        s0 == [s EXCEPT !.save_calls = @ + 1, !.last_path = filepath]
        done(x) == Notification(x, "DEEP_NOTIF_SUCCESS", "Model and weights saved")
    IN  IF s0.save_method = "DEEP_SAVE_NET_FORMAT_PYTORCH"
        THEN IF Serialized(s0, io_ok)
             THEN done([s0 EXCEPT !.writes = @ + 1])
             ELSE LET s1 == handle_error_saving_call1(
                                Notification(s0, "DEEP_NOTIF_ERROR",
                                    "Error while saving the pytorch model and weights"))
                  IN IF s1.proc = "running" THEN done(s1) ELSE s1
        ELSE IF s0.save_method = "DEEP_SAVE_NET_FORMAT_ONNX"
        THEN IF Serialized(s0, io_ok)
             THEN done([s0 EXCEPT !.writes = @ + 1])
             ELSE LET s1 == handle_error_saving_call1(
                                Notification(s0, "DEEP_NOTIF_ERROR",
                                    "Error while saving the ONNX model and weights"))
                  IN IF s1.proc = "running" THEN done(s1) ELSE s1
        ELSE done(s0)

\* Saver.on_overwatch_metric_computed(model, current_overwatch_metric)
on_overwatch_metric_computed(s, m, io_ok) ==
    IF s.save_condition = "DEEP_SAVE_CONDITION_END_EPOCH"
    THEN save_model(s, io_ok)
    ELSE IF s.save_condition = "DEEP_SAVE_CONDITION_AUTO"
    THEN LET s1 == is_saving_required(s, m)
         IN IF s1.proc = "running" /\ is_saving_required_value = "True"
            THEN save_model(s1, io_ok)
            ELSE s1
    ELSE s

\* on_training_end saving whatever the save condition
on_training_end_unconditional(s, io_ok) == save_model(s, io_ok)

\* on_training_end falling back to the default save condition once it saved
on_training_end_spends_policy(s, io_ok) ==
    IF s.save_condition = "DEEP_SAVE_CONDITION_END_TRAINING"
    THEN [save_model(s, io_ok) EXCEPT !.save_condition = "DEEP_SAVE_CONDITION_AUTO"]
    ELSE s

\* Saver.on_training_end(model)
on_training_end(s, io_ok) ==
    IF s.save_condition = "DEEP_SAVE_CONDITION_END_TRAINING"
    THEN save_model(s, io_ok)
    ELSE s

\* The prompts of __handle_error_saving: Notification(DEEP_NOTIF_INPUT, q).get()
AskRetry(s) ==
    [Notification(s, "DEEP_NOTIF_INPUT", "Would you try to try again to save? (y/n)")
        EXCEPT !.saver_pc = "retry"]

AskAnotherFormat(s) ==
    [Notification(s, "DEEP_NOTIF_INPUT",
        "Would you like to save in another format, if not Deeplodocus will be closed ? (y/n)")
        EXCEPT !.saver_pc = "another_format"]

AskClose(s) ==
    [Notification(
        Notification(s, "DEEP_NOTIF_WARNING",
            "You will lose all your data if Deeplodocus is closed !"),
        "DEEP_NOTIF_INPUT", "Are you sure to close Deeplodocus (y/n)")
        EXCEPT !.saver_pc = "close"]

AskFormat(s) ==
    [Notification(s, "DEEP_NOTIF_INPUT",
        "What format would you like to save ? (pytorch/onnx)")
        EXCEPT !.saver_pc = "format"]

\* `while response.lower() != ("y" or "n")`: TRUE when the prompt is asked again
YesNoLoops(r) == Lower(r) # PyOr(Str_y, Str_n)

\* `while response.lower() != ("pytorch" or "onnx")`
FormatLoops(r) == Lower(r) # PyOr(Str_pytorch, Str_onnx)

\* End(error=False): the process exits
End(s) == [s EXCEPT !.proc = "exited", !.saver_pc = "idle"]

\* __handle_error_saving returns to its caller
Return(s) == IF s.proc = "running" THEN [s EXCEPT !.saver_pc = "idle"] ELSE s

\* Saver.__handle_error_saving(name, model), up to its first prompt
handle_error_saving(s) ==
    AskRetry([Notification(s, "DEEP_NOTIF_ERROR",
                "Please make sure you have the permission to write for this following file : name")
              EXCEPT !.response = Str_empty])

\* Saver.__handle_error_saving from the prompt it waits at, given the line r
\* read there, up to the next prompt or its end
handle_error_saving_answer(s, r, io_ok) ==
    LET s0 == [s EXCEPT !.response = r]
        s_reset == [s0 EXCEPT !.response = Str_empty]
    IN  CASE s.saver_pc = "retry" ->
                IF YesNoLoops(r) THEN AskRetry(s0)
                ELSE IF Lower(r) = Str_y THEN Return(save_model(s0, io_ok))
                ELSE AskAnotherFormat(s_reset)
          [] s.saver_pc = "another_format" ->
                IF YesNoLoops(r) THEN AskAnotherFormat(s0)
                ELSE IF Lower(r) = Str_n THEN AskClose(s_reset)
                ELSE AskFormat(s_reset)
          [] s.saver_pc = "close" ->
                IF YesNoLoops(r) THEN AskClose(s0)
                \* self.__handle_error_saving() without arguments
                ELSE IF Lower(r) = Str_n THEN Raise(s0, "TypeError")
                ELSE End(s0)
          [] s.saver_pc = "format" ->
                IF FormatLoops(r) THEN AskFormat(s0)
                ELSE LET s1 == IF Lower(r) = Str_pytorch
                               THEN [s0 EXCEPT !.save_model_method =
                                        "DEEP_SAVE_NET_FORMAT_PYTORCH"]
                               ELSE IF Lower(r) = Str_onnx
                               THEN [s0 EXCEPT !.save_model_method =
                                        "DEEP_SAVE_NET_FORMAT_ONNX"]
                               ELSE s0
                     IN Return(save_model(s1, io_ok))

\* ----------------------------------------------------------------- Trainer
VARIABLES
    pc,                 \* where Trainer.fit stands
    initial_epoch, num_epochs, shuffle, tester, first_training,
    length_dataset, batch_size, num_minibatches,
    epoch,              \* the loop variable of __train (0: not yet bound)
    minibatch_index,    \* minibatches of the current epoch already processed
    paused,             \* the callbacks' clocks are paused
    n_train_begin, n_unpause, n_pause, n_epoch_start, n_batch_end,
    n_epoch_end, n_training_end, n_optimizer_step, n_evaluate,
    overwatch_condition, \* the condition of the Trainer's overwatch_metric
    calls,              \* the calls the latest step of fit made, in their order
    batch               \* one minibatch of __train looked at step by step

trainer_vars ==
    <<pc, initial_epoch, num_epochs, shuffle, tester, first_training,
      length_dataset, batch_size, num_minibatches, epoch, minibatch_index,
      paused, n_train_begin, n_unpause, n_pause, n_epoch_start, n_batch_end,
      n_epoch_end, n_training_end, n_optimizer_step, n_evaluate,
      overwatch_condition, calls, batch>>

\* ------------------------------------------------------ Thalamus and Brain
VARIABLES
    delivered,      \* Thalamus: the receiver calls of the latest dispatch pass
    config,         \* Brain.config, a Namespace
    dtype_bound,    \* what the global name `dtype` is bound to in brain.py
    converted,      \* what the latest __convert_dtype call produced
    _config,        \* Brain._config, the stored copy of the configuration
    file,           \* the text Namespace.save wrote, line by line
    loaded,         \* the Namespace loaded from the file, or what load raised
    heap,           \* the Namespace objects by identity, when copies matter
    command,        \* the sub-commands of the line __execute_command was given
    execs           \* the sub-commands the latest __execute_command handed to exec

bus_vars == <<delivered>>

\* The files Namespace.save wrote and what Namespace.load made of them
namespace_vars == <<file, loaded>>

\* The command line of the Brain
shell_vars == <<command, execs>>

brain_vars ==
    <<config, _config, dtype_bound, converted, namespace_vars, heap, shell_vars>>

vars == <<saver_vars, trainer_vars, bus_vars, brain_vars>>

\* compute_num_minibatches counting one more minibatch after every quotient
compute_num_minibatches_plus_one(length, size) == (length \div size) + 1

\* GenericInferer.compute_num_minibatches(length_dataset, batch_size)
compute_num_minibatches(length, size) ==
    IF length % size = 0 THEN length \div size ELSE (length \div size) + 1

\* Saver.__init__
InitSaver ==
    /\ save_method \in SaveMethods
    /\ save_condition \in SaveConditions
    /\ directory \in Directories
    /\ name = "test"
    /\ best_overwatch_metric = None
    /\ extension = InitExtension(save_method)
    /\ save_model_method = None
    /\ signals = <<>>
    /\ notifs = <<>>
    /\ proc = "running"
    /\ exc = "none"
    /\ saver_pc = "idle"
    /\ response = Str_empty
    /\ op = "__init__"
    /\ cur_metric = None
    /\ n_obs = 0
    /\ save_calls = 0
    /\ writes = 0
    /\ last_path = None

\* Trainer.__init__ (GenericInferer.__init__ for the dataloader)
InitTrainer ==
    /\ pc = "fit"
    /\ initial_epoch \in 0..1
    /\ num_epochs \in 1..MaxNumEpochs
    /\ shuffle \in {"None", "DEEP_SHUFFLE_ALL"}
    /\ tester \in {"None", "Tester"}
    /\ first_training = TRUE
    /\ length_dataset \in 0..MaxLength
    /\ batch_size \in 1..MaxBatchSize
    /\ num_minibatches = compute_num_minibatches(length_dataset, batch_size)
    /\ epoch = 0
    /\ minibatch_index = 0
    /\ paused = FALSE
    /\ n_train_begin = 0
    /\ n_unpause = 0
    /\ n_pause = 0
    /\ n_epoch_start = 0
    /\ n_batch_end = 0
    /\ n_epoch_end = 0
    /\ n_training_end = 0
    /\ n_optimizer_step = 0
    /\ n_evaluate = 0
    /\ overwatch_condition \in CompareModes
    /\ calls = <<>>
    /\ batch = None

\* --------------------------------------------- the Saver as a component
\* Thalamus: DEEP_EVENT_OVERWATCH_METRIC_COMPUTED reaches the receiver the
\* Saver connected for it, is_saving_required(current_overwatch_metric)
Thalamus_OVERWATCH_METRIC_COMPUTED(m) ==
    /\ proc = "running" /\ saver_pc = "idle"
    /\ n_obs < MaxObs
    /\ Commit([is_saving_required(Self, m) EXCEPT !.op = "OVERWATCH_METRIC_COMPUTED"])
    /\ UNCHANGED <<trainer_vars, bus_vars, brain_vars>>

\* Thalamus: DEEP_EVENT_ON_TRAINING_END reaches on_training_end(model)
Thalamus_ON_TRAINING_END(io_ok) ==
    /\ proc = "running" /\ saver_pc = "idle"
    /\ save_calls < MaxSaveCalls
    /\ Commit([on_training_end(Self, io_ok) EXCEPT !.op = "ON_TRAINING_END"])
    /\ UNCHANGED <<trainer_vars, bus_vars, brain_vars>>

\* Thalamus: DEEP_EVENT_SAVE_MODEL reaches save_model(model)
Thalamus_SAVE_MODEL(io_ok) ==
    /\ proc = "running" /\ saver_pc = "idle"
    /\ save_calls < MaxSaveCalls
    /\ Commit([save_model(Self, io_ok) EXCEPT !.op = "SAVE_MODEL"])
    /\ UNCHANGED <<trainer_vars, bus_vars, brain_vars>>

\* A direct call of Saver.on_overwatch_metric_computed(model, metric)
Call_on_overwatch_metric_computed(m, io_ok) ==
    /\ proc = "running" /\ saver_pc = "idle"
    /\ n_obs < MaxObs /\ save_calls < MaxSaveCalls
    /\ Commit([on_overwatch_metric_computed(Self, m, io_ok)
                EXCEPT !.op = "on_overwatch_metric_computed"])
    /\ UNCHANGED <<trainer_vars, bus_vars, brain_vars>>

\* A call of Saver.__handle_error_saving(name, model) with both arguments
Call_handle_error_saving ==
    /\ proc = "running" /\ saver_pc = "idle"
    /\ Commit([handle_error_saving(Self) EXCEPT !.op = "__handle_error_saving"])
    /\ UNCHANGED <<trainer_vars, bus_vars, brain_vars>>

\* The operator answers the prompt __handle_error_saving waits at
Answer_handle_error_saving(r, io_ok) ==
    /\ proc = "running" /\ saver_pc # "idle"
    /\ save_calls < MaxSaveCalls
    /\ Commit([handle_error_saving_answer(Self, r, io_ok) EXCEPT !.op = "answer"])
    /\ UNCHANGED <<trainer_vars, bus_vars, brain_vars>>

SaverNext ==
    \/ \E m \in OverWatchMetrics : Thalamus_OVERWATCH_METRIC_COMPUTED(m)
    \/ \E io_ok \in BOOLEAN : Thalamus_ON_TRAINING_END(io_ok)
    \/ \E io_ok \in BOOLEAN : Thalamus_SAVE_MODEL(io_ok)
    \/ \E m \in OverWatchMetrics, io_ok \in BOOLEAN :
            Call_on_overwatch_metric_computed(m, io_ok)
    \/ Call_handle_error_saving
    \/ \E r \in SaverAnswers, io_ok \in BOOLEAN : Answer_handle_error_saving(r, io_ok)

\* The Saver of one Trainer built with its defaults, fit not yet called
InitTrainerDefault ==
    /\ InitTrainer
    /\ initial_epoch = 1 /\ num_epochs = 1 /\ shuffle = "DEEP_SHUFFLE_ALL"
    /\ tester = "None" /\ length_dataset = 0 /\ batch_size = 1
    /\ overwatch_condition = "DEEP_COMPARE_SMALLER"

\* Nothing dispatched yet
InitThalamus == delivered = <<>>

\* No command given yet
InitShell == command = <<>> /\ execs = <<>>

\* A Brain whose configuration is not looked at
InitBrainIdle ==
    /\ config = None /\ _config = None /\ dtype_bound = "unbound"
    /\ converted = None /\ file = None /\ loaded = None /\ heap = <<>>
    /\ InitShell

SaverInit == InitSaver /\ InitTrainerDefault /\ InitThalamus /\ InitBrainIdle

SaverSpec == SaverInit /\ [][SaverNext]_vars

\* The Saver in front of an operator who does not leave a prompt unanswered:
\* Notification(DEEP_NOTIF_INPUT, ...).get() returns once a line is typed
SaverLiveSpec ==
    /\ SaverSpec
    /\ WF_vars(\E r \in SaverAnswers, io_ok \in BOOLEAN :
                    Answer_handle_error_saving(r, io_ok))

\* ------------------------------------------------ the Thalamus (event bus)
\* Saver.__init__ with its first receiver connected for the model argument
SaverSubscriptions_model_only ==
    << [event |-> "DEEP_EVENT_OVERWATCH_METRIC_COMPUTED",
        receiver |-> "is_saving_required",
        expected_arguments |-> <<"model">>],
       [event |-> "DEEP_EVENT_ON_TRAINING_END",
        receiver |-> "on_training_end",
        expected_arguments |-> <<"model">>],
       [event |-> "DEEP_EVENT_SAVE_MODEL",
        receiver |-> "save_model",
        expected_arguments |-> <<"model">>] >>

\* Saver.__init__: the receivers the Saver connects, in the order of the calls
SaverSubscriptions ==
    << [event |-> "DEEP_EVENT_OVERWATCH_METRIC_COMPUTED",
        receiver |-> "is_saving_required",
        expected_arguments |-> <<"current_overwatch_metric">>],
       [event |-> "DEEP_EVENT_ON_TRAINING_END",
        receiver |-> "on_training_end",
        expected_arguments |-> <<"model">>],
       [event |-> "DEEP_EVENT_SAVE_MODEL",
        receiver |-> "save_model",
        expected_arguments |-> <<"model">>] >>

Range(seq) == {seq[i] : i \in DOMAIN seq}

\* A signal is its event and its arguments, one field per argument
Arguments(signal) == [k \in (DOMAIN signal) \ {"event"} |-> signal[k]]

\* The subscriptions of an event, in registration order
Receivers(event) == SelectSeq(SaverSubscriptions, LAMBDA sub : sub.event = event)

\* The arguments of a signal a receiver declared
Project(signal, names) == [k \in Range(names) |-> signal[k]]

\* An argument the receiver declared is not among the signal's
MissingArgument(signal, sub) ==
    \E k \in Range(sub.expected_arguments) : k \notin DOMAIN Arguments(signal)

\* receiver(**args): the call of a Saver method with keyword arguments
Invoke(s, receiver, args, io_ok) ==
    IF receiver = "is_saving_required"
    THEN IF DOMAIN args = {"current_overwatch_metric"}
         THEN is_saving_required(s, args.current_overwatch_metric)
         ELSE Raise(s, "TypeError")
    ELSE IF receiver = "on_training_end"
    THEN IF DOMAIN args = {"model"}
         THEN on_training_end(s, io_ok)
         ELSE Raise(s, "TypeError")
    ELSE IF "model" \in DOMAIN args /\ DOMAIN args \subseteq {"model", "input"}
         THEN save_model(s, io_ok)
         ELSE Raise(s, "TypeError")

\* The signal popped as number i is handed to the receivers subs, one after
\* the other; d is the Saver and the log of calls so far
RECURSIVE Deliver(_, _, _, _, _)
Deliver(d, i, signal, subs, io_ok) ==
    IF subs = <<>> \/ d.s.proc # "running" THEN d
    ELSE LET sub == Head(subs)
         IN IF MissingArgument(signal, sub)
            THEN [d EXCEPT !.s = NotificationFatal(@, "expected argument missing")]
            ELSE LET args == Project(signal, sub.expected_arguments)
                     call == [signal |-> i, receiver |-> sub.receiver, args |-> args]
                 IN Deliver([s |-> Invoke(d.s, sub.receiver, args, io_ok),
                             log |-> Append(d.log, call)],
                            i, signal, Tail(subs), io_ok)

\* The pending signals from number i on, oldest first
RECURSIVE Pass(_, _, _, _)
Pass(d, pending, i, io_ok) ==
    IF i > Len(pending) \/ d.s.proc # "running" THEN d
    ELSE Pass(Deliver(d, i, pending[i], Receivers(pending[i].event), io_ok),
              pending, i + 1, io_ok)

\* A dispatch pass that also consumes what the receivers emit meanwhile
dispatch_inline(s, io_ok) ==
    LET d == Pass([s |-> [s EXCEPT !.signals = <<>>], log |-> <<>>], s.signals, 1, io_ok)
    IN [d EXCEPT !.s.signals = <<>>]

\* One dispatch pass: every signal pending when the pass starts is popped;
\* what the receivers add meanwhile stays queued
dispatch(s, io_ok) ==
    Pass([s |-> [s EXCEPT !.signals = <<>>], log |-> <<>>], s.signals, 1, io_ok)

\* The signals whose event is among events
Pending(queue, events) == SelectSeq(queue, LAMBDA signal : signal.event \in events)

\* The overwatch metric of a session: the total loss, lower is better, at its
\* least and its greatest value
EmittedMetrics ==
    {m \in OverWatchMetrics :
        m.condition = "DEEP_COMPARE_SMALLER" /\ m.value \in {0, MaxValue}}

\* The signals the components of a session emit
EmittedSignals ==
    { [event |-> "DEEP_EVENT_OVERWATCH_METRIC_COMPUTED",
       current_overwatch_metric |-> m, model |-> "model"] : m \in EmittedMetrics }
    \cup { [event |-> "DEEP_EVENT_ON_TRAINING_END", model |-> "model"],
           [event |-> "DEEP_EVENT_SAVE_MODEL", model |-> "model"],
           [event |-> "DEEP_EVENT_SAVE_MODEL"],
           [event |-> "DEEP_EVENT_ON_EPOCH_START", epoch_index |-> 1] }

\* Thalamus().add_signal(signal) by a component
Thalamus_add_signal(signal) ==
    /\ proc = "running" /\ saver_pc = "idle"
    /\ Len(signals) < MaxQueue
    /\ Commit([add_signal(Self, signal) EXCEPT !.op = "add_signal"])
    /\ UNCHANGED <<delivered, trainer_vars, brain_vars>>

\* A dispatch pass of the Thalamus
Thalamus_dispatch(io_ok) ==
    /\ proc = "running" /\ saver_pc = "idle"
    /\ signals # <<>>
    /\ n_obs + Len(Pending(signals, {"DEEP_EVENT_OVERWATCH_METRIC_COMPUTED"})) =< MaxObs
    /\ save_calls + Len(Pending(signals, {"DEEP_EVENT_ON_TRAINING_END",
                                          "DEEP_EVENT_SAVE_MODEL"})) =< MaxSaveCalls
    /\ LET d == dispatch(Self, io_ok)
       IN /\ Commit([d.s EXCEPT !.op = "dispatch"])
          /\ delivered' = d.log
    /\ UNCHANGED <<trainer_vars, brain_vars>>

BusNext ==
    \/ \E signal \in EmittedSignals : Thalamus_add_signal(signal)
    \/ \E io_ok \in BOOLEAN : Thalamus_dispatch(io_ok)

\* One Saver, and nothing emitted yet
BusInit == SaverInit /\ directory = <<"weights", "/">>

BusSpec == BusInit /\ [][BusNext]_vars

\* ------------------------------------------------- one training session
\* The minibatches the DataLoader yields per epoch (drop_last is not set)
DataLoaderLen == (length_dataset + batch_size - 1) \div batch_size

\* Callback.on_epoch_end: the History computes the overwatch metric and the
\* Thalamus hands DEEP_EVENT_OVERWATCH_METRIC_COMPUTED to the Saver's receiver
Callback_on_epoch_end(s, m) == is_saving_required(s, m)

\* Callback.on_training_end(model): DEEP_EVENT_ON_TRAINING_END reaches the Saver
Callback_on_training_end(s, io_ok) == on_training_end(s, io_ok)

\* `for epoch in range(self.initial_epoch+1, self.num_epochs+1)`: the first index
RangeStart(initial) == initial + 1

\* range(...): TRUE when index e is still inside the range
InRange(e, num) == e < num + 1

\* The optimizer stepping before the gradient is computed
MinibatchSteps_step_first ==
    <<"clean_single_element_list", "optimizer.zero_grad", "model",
      "compute_metrics(losses)", "compute_metrics(metrics)", "apply_weight",
      "sum_dict", "optimizer.step", "total_loss.backward", "detach",
      "callbacks.on_batch_end">>

\* Trainer.__train, the calls of one minibatch in the order of the statements
MinibatchSteps ==
    <<"clean_single_element_list", "optimizer.zero_grad", "model",
      "compute_metrics(losses)", "compute_metrics(metrics)", "apply_weight",
      "sum_dict", "total_loss.backward", "optimizer.step", "detach",
      "callbacks.on_batch_end">>

\* The validation pass left out
EpochEndSteps_no_validation(shuffling, validator) ==
    (IF shuffling # "None" THEN <<"dataset.shuffle">> ELSE <<>>)
    \o <<"dataset.reset">>
    \o (IF validator # "None" THEN <<"callbacks.on_epoch_end">> ELSE <<>>)

\* Trainer.__train after the minibatches of an epoch: the shuffle when one is
\* set, the reset, __evaluate_epoch (which evaluates with a Tester only),
\* then on_epoch_end, whose arguments cannot be evaluated without a Tester
EpochEndSteps(shuffling, validator) ==
    (IF shuffling # "None" THEN <<"dataset.shuffle">> ELSE <<>>)
    \o <<"dataset.reset">>
    \o (IF validator # "None"
        THEN <<"tester.evaluate", "callbacks.on_epoch_end">>
        ELSE <<>>)

\* Trainer.__train before the epoch loop
TrainBeginSteps(first) ==
    IF first THEN <<"callbacks.on_train_begin">> ELSE <<"callbacks.unpause">>

\* The pause before on_training_end
TrainingEndSteps_pause_first(returned) ==
    <<"callbacks.pause", "callbacks.on_training_end">>
    \o (IF returned
        THEN <<"Notification(FINISHED_TRAINING)", "__continue_training">>
        ELSE <<>>)

\* Trainer.__train after the epoch loop, then fit: the pause and the prompt
\* are reached when on_training_end returns
TrainingEndSteps(returned) ==
    <<"callbacks.on_training_end">>
    \o (IF returned
        THEN <<"callbacks.pause", "Notification(FINISHED_TRAINING)",
               "__continue_training">>
        ELSE <<>>)

\* Trainer.fit -> __train, up to the epoch loop
Train_begin ==
    /\ proc = "running" /\ pc = "fit"
    /\ IF first_training
       THEN /\ n_train_begin' = n_train_begin + 1
            /\ UNCHANGED <<n_unpause, paused>>
       ELSE /\ n_unpause' = n_unpause + 1
            /\ paused' = FALSE
            /\ UNCHANGED n_train_begin
    /\ IF InRange(RangeStart(initial_epoch), num_epochs)
       THEN epoch' = RangeStart(initial_epoch) /\ pc' = "epoch_start"
       ELSE epoch' = epoch /\ pc' = "training_end"
    /\ Commit([Self EXCEPT !.op = "train_begin"])
    /\ UNCHANGED <<initial_epoch, num_epochs, shuffle, tester, first_training,
                   length_dataset, batch_size, num_minibatches, minibatch_index,
                   n_pause, n_epoch_start, n_batch_end, n_epoch_end,
                   n_training_end, n_optimizer_step, n_evaluate, overwatch_condition>>
    /\ calls' = TrainBeginSteps(first_training)
    /\ UNCHANGED <<bus_vars, brain_vars, batch>>

\* callbacks.on_epoch_start, and the dataloader iterator is created
Epoch_start ==
    /\ proc = "running" /\ pc = "epoch_start"
    /\ n_epoch_start' = n_epoch_start + 1
    /\ minibatch_index' = 0
    /\ pc' = IF DataLoaderLen > 0 THEN "minibatch" ELSE "epoch_end"
    /\ Commit([Self EXCEPT !.op = "on_epoch_start"])
    /\ UNCHANGED <<initial_epoch, num_epochs, shuffle, tester, first_training,
                   length_dataset, batch_size, num_minibatches, epoch, paused,
                   n_train_begin, n_unpause, n_pause, n_batch_end, n_epoch_end,
                   n_training_end, n_optimizer_step, n_evaluate, overwatch_condition>>
    /\ calls' = <<"callbacks.on_epoch_start">>
    /\ UNCHANGED <<bus_vars, brain_vars, batch>>

\* One minibatch: zero_grad, forward, losses and metrics, backward,
\* optimizer.step, detach, callbacks.on_batch_end
Minibatch ==
    /\ proc = "running" /\ pc = "minibatch"
    /\ n_optimizer_step' = n_optimizer_step + 1
    /\ n_batch_end' = n_batch_end + 1
    /\ minibatch_index' = minibatch_index + 1
    /\ pc' = IF minibatch_index' < DataLoaderLen THEN "minibatch" ELSE "epoch_end"
    /\ Commit([Self EXCEPT !.op = "on_batch_end"])
    /\ UNCHANGED <<initial_epoch, num_epochs, shuffle, tester, first_training,
                   length_dataset, batch_size, num_minibatches, epoch, paused,
                   n_train_begin, n_unpause, n_pause, n_epoch_start, n_epoch_end,
                   n_training_end, n_evaluate, overwatch_condition>>
    /\ calls' = MinibatchSteps
    /\ UNCHANGED <<bus_vars, brain_vars, batch>>

\* After the minibatches: shuffle, reset, __evaluate_epoch, callbacks.on_epoch_end.
\* Without a Tester, total_validation_loss is None and `.item()` raises
\* AttributeError while the arguments of on_epoch_end are evaluated.
Epoch_end(value) ==
    /\ proc = "running" /\ pc = "epoch_end"
    /\ n_evaluate' = IF tester # "None" THEN n_evaluate + 1 ELSE n_evaluate
    /\ IF tester = "None"
       THEN /\ Commit([Raise(Self, "AttributeError") EXCEPT !.op = "on_epoch_end"])
            /\ UNCHANGED <<n_epoch_end, epoch, pc>>
       ELSE /\ n_epoch_end' = n_epoch_end + 1
            /\ Commit([Callback_on_epoch_end(Self,
                          [condition |-> overwatch_condition, value |-> value])
                       EXCEPT !.op = "on_epoch_end"])
            /\ IF InRange(epoch + 1, num_epochs)
               THEN epoch' = epoch + 1 /\ pc' = "epoch_start"
               ELSE epoch' = epoch /\ pc' = "training_end"
    /\ UNCHANGED <<initial_epoch, num_epochs, shuffle, tester, first_training,
                   length_dataset, batch_size, num_minibatches, minibatch_index,
                   paused, n_train_begin, n_unpause, n_pause, n_epoch_start,
                   n_batch_end, n_training_end, n_optimizer_step, overwatch_condition>>
    /\ calls' = EpochEndSteps(shuffle, tester)
    /\ UNCHANGED <<bus_vars, brain_vars, batch>>

\* __continue_training asks whether to continue
AskContinue(s) ==
    Notification(s, "DEEP_NOTIF_INPUT", "Would you like to continue the training ? (Y/N) ")

\* __continue_training starts: `continue_training = ""`, then the first question
continue_training(s) == AskContinue([s EXCEPT !.response = Str_empty])

\* __continue_training asks the number of epochs
AskEpochs(s) == Notification(s, "DEEP_NOTIF_INPUT", "Number of epochs ? ")

\* After the last epoch: callbacks.on_training_end, callbacks.pause, then fit
\* reports FINISHED_TRAINING and __continue_training asks its first question
Training_end(io_ok) ==
    /\ proc = "running" /\ pc = "training_end"
    /\ save_calls < MaxSaveCalls
    /\ n_training_end' = n_training_end + 1
    /\ LET s1 == Callback_on_training_end(Self, io_ok)
       IN IF s1.proc = "running"
          THEN /\ n_pause' = n_pause + 1
               /\ paused' = TRUE
               /\ pc' = "continue_prompt"
               /\ Commit([continue_training(Notification(s1, "DEEP_NOTIF_SUCCESS",
                                                   "FINISHED_TRAINING"))
                          EXCEPT !.op = "on_training_end"])
          ELSE /\ Commit([s1 EXCEPT !.op = "on_training_end"])
               /\ UNCHANGED <<n_pause, paused, pc>>
    /\ UNCHANGED <<initial_epoch, num_epochs, shuffle, tester, first_training,
                   length_dataset, batch_size, num_minibatches, epoch,
                   minibatch_index, n_train_begin, n_unpause, n_epoch_start,
                   n_batch_end, n_epoch_end, n_optimizer_step, n_evaluate,
                   overwatch_condition>>
    /\ calls' = TrainingEndSteps(proc' = "running")
    /\ UNCHANGED <<bus_vars, brain_vars, batch>>

\* `while continue_training.lower() not in ["y", "n"]`
ContinueLoops(r) == Lower(r) \notin {Str_y, Str_n}

\* The operator answers "Would you like to continue the training ? (Y/N)"
Answer_continue(r) ==
    /\ proc = "running" /\ pc = "continue_prompt"
    /\ IF ContinueLoops(r)
       THEN /\ pc' = "continue_prompt"
            /\ Commit([AskContinue(Self) EXCEPT !.response = r, !.op = "answer_continue"])
       ELSE IF Lower(r) = Str_y
       THEN /\ pc' = "epochs_prompt"
            /\ Commit([AskEpochs(Self) EXCEPT !.response = r, !.op = "answer_continue"])
       ELSE /\ pc' = "done"
            /\ Commit([Self EXCEPT !.response = r, !.op = "answer_continue"])
    /\ UNCHANGED <<initial_epoch, num_epochs, shuffle, tester, first_training,
                   length_dataset, batch_size, num_minibatches, epoch,
                   minibatch_index, paused, n_train_begin, n_unpause, n_pause,
                   n_epoch_start, n_batch_end, n_epoch_end, n_training_end,
                   n_optimizer_step, n_evaluate, overwatch_condition>>
    /\ calls' = <<>>
    /\ UNCHANGED <<bus_vars, brain_vars, batch>>

\* `if epochs > 0`
EpochsAccepted(k) == k > 0

\* `self.initial_epoch = self.num_epochs + 1`
ResumedInitialEpoch(num) == num + 1

\* num_epochs assigned instead of extended
ExtendedNumEpochs_assigned(num, k) == k

\* `self.num_epochs += epochs`
ExtendedNumEpochs(num, k) == num + k

\* a resumed pass that is started like the first one
ResumedFirstTraining_again == TRUE

\* `self.fit(first_training=False)`
ResumedFirstTraining == FALSE

\* The operator answers "Number of epochs ?"
Answer_epochs(r) ==
    /\ proc = "running" /\ pc = "epochs_prompt"
    /\ IF IntRaisesValueError(r)
       THEN /\ pc' = "epochs_prompt"
            /\ Commit([AskEpochs(Notification(Self, "DEEP_NOTIF_WARNING",
                                    "Number of epochs must be an integer"))
                       EXCEPT !.response = r, !.op = "answer_epochs"])
            /\ UNCHANGED <<initial_epoch, num_epochs, first_training>>
       ELSE IF EpochsAccepted(Int_(r))
       THEN /\ num_epochs + Int_(r) <= MaxTotalEpochs
            /\ initial_epoch' = ResumedInitialEpoch(num_epochs)
            /\ num_epochs' = ExtendedNumEpochs(num_epochs, Int_(r))
            /\ first_training' = ResumedFirstTraining
            /\ pc' = "fit"
            /\ Commit([Self EXCEPT !.response = r, !.op = "answer_epochs"])
       ELSE /\ pc' = "done"
            /\ Commit([Self EXCEPT !.response = r, !.op = "answer_epochs"])
            /\ UNCHANGED <<initial_epoch, num_epochs, first_training>>
    /\ UNCHANGED <<shuffle, tester, length_dataset, batch_size, num_minibatches,
                   epoch, minibatch_index, paused, n_train_begin, n_unpause,
                   n_pause, n_epoch_start, n_batch_end, n_epoch_end,
                   n_training_end, n_optimizer_step, n_evaluate, overwatch_condition>>
    /\ calls' = <<>>
    /\ UNCHANGED <<bus_vars, brain_vars, batch>>

Next ==
    \/ Train_begin
    \/ Epoch_start
    \/ Minibatch
    \/ \E value \in 0..MaxValue : Epoch_end(value)
    \/ \E io_ok \in BOOLEAN : Training_end(io_ok)
    \/ \E r \in TrainerAnswers : Answer_continue(r)
    \/ \E r \in TrainerAnswers : Answer_epochs(r)

\* The session's Saver writes below one directory
Init ==
    /\ InitSaver /\ InitTrainer /\ directory = <<"weights", "/">>
    /\ InitThalamus /\ InitBrainIdle

Spec == Init /\ [][Next]_vars

\* fit as the interpreter runs it: a statement that can run does run. The
\* operator may leave a question of __continue_training unanswered.
FitLiveSpec ==
    /\ Spec
    /\ WF_vars(Train_begin)
    /\ WF_vars(Epoch_start)
    /\ WF_vars(Minibatch)
    /\ WF_vars(\E value \in 0..MaxValue : Epoch_end(value))
    /\ WF_vars(\E io_ok \in BOOLEAN : Training_end(io_ok))

\* -------------------------------------------- the Brain's configuration
\* Python values: None, int, str (its characters), list, Namespace (its __dict__)
PyInt(n) == [type |-> "int", int |-> n]

PyStr(chars) == [type |-> "str", chars |-> chars]

PyList(items) == [type |-> "list", items |-> items]

PyNamespace(dict) == [type |-> "Namespace", d |-> dict]

TypeOf(value) == IF value = None THEN "NoneType" ELSE value.type

\* What a call produced: the exception it raised, or its value
Returned(value) == [raised |-> "none", value |-> value]

Raised(e) == [raised |-> e, value |-> None]

\* int(value)
int(value) ==
    CASE TypeOf(value) = "int" -> Returned(value)
      [] TypeOf(value) = "str" ->
            IF IntRaisesValueError(value.chars) THEN Raised("ValueError")
            ELSE Returned(PyInt(Int_(value.chars)))
      [] OTHER -> Raised("TypeError")

\* eval(value): a decimal literal is its number, a bare name that is bound
\* nowhere raises NameError, anything that is no expression raises
\* SyntaxError; eval takes a str only
eval(value) ==
    IF TypeOf(value) # "str" THEN Raised("TypeError")
    ELSE LET t == Strip(value.chars)
         IN IF Len(t) = 0 THEN Raised("SyntaxError")
            ELSE IF \A i \in DOMAIN t : t[i] \in Digits
            THEN Returned(PyInt(DigitsValue(t)))
            ELSE IF \A i \in DOMAIN t : t[i] \notin Digits \cup {" ", "-", "+", "."}
            THEN Raised("NameError")
            ELSE Raised("SyntaxError")

\* d_type(value) for the data types of the configuration
Construct(d_type, value) ==
    IF d_type = "int" THEN int(value) ELSE Raised("TypeError")

\* Brain.__convert(value, d_type). The test reads the global name `dtype`
\* (not the parameter d_type), which brain.py binds nowhere itself: bound is
\* "unbound" when the star import does not bind it either, "number" when it
\* is bound to an int or a float, "other" when it is bound to anything else.
convert(value, d_type, bound) ==
    IF bound = "unbound" THEN Raised("NameError")
    ELSE IF bound = "number"
    THEN LET evaluated == eval(value)
         IN IF evaluated.raised = "none"
            THEN Construct(d_type, evaluated.value)
            ELSE IF evaluated.raised = "NameError"
            THEN LET again == Construct(d_type, value)
                 IN IF again.raised = "TypeError" THEN Returned(None) ELSE again
            ELSE evaluated
    ELSE LET built == Construct(d_type, value)
         IN IF built.raised = "TypeError" THEN Returned(None) ELSE built

\* The data types DEEP_CONFIG declares: a type, or a list holding one type
DType(is_list, type) == [is_list |-> is_list, type |-> type]

\* Brain.__convert_dtype, the loop over the items of a list value from item i
\* on; s carries the notifications
RECURSIVE convert_items(_, _, _, _, _, _)
convert_items(s, items, i, new_values, d_type, default) ==
    IF i > Len(items) THEN [s |-> s, result |-> Returned(PyList(new_values))]
    ELSE LET new_item == convert(items[i], d_type.type, dtype_bound)
         IN IF new_item.raised # "none"
            THEN [s |-> s, result |-> new_item]
            ELSE IF new_item.value # None
            THEN convert_items(s, items, i + 1, Append(new_values, new_item.value),
                               d_type, default)
            ELSE [s |-> Notification(s, "DEEP_NOTIF_WARNING", "DEEP_MSG_NOT_CONVERTED"),
                  result |-> Returned(default)]

\* Brain.__convert_dtype(value, d_type, default)
convert_dtype(s, value, d_type, default) ==
    IF value = None THEN [s |-> s, result |-> Returned(None)]
    ELSE IF d_type.is_list
    THEN convert_items(s, IF TypeOf(value) = "list" THEN value.items ELSE <<value>>,
                       1, <<>>, d_type, default)
    ELSE IF d_type.type = "dict"
    THEN IF TypeOf(value) = "Namespace"
         THEN [s |-> s, result |-> Returned(value)]
         ELSE [s |-> Notification(s, "DEEP_NOTIF_WARNING", "DEEP_MSG_NOT_CONVERTED"),
               result |-> Returned(PyNamespace(default))]
    ELSE LET new_value == convert(value, d_type.type, dtype_bound)
         IN IF new_value.raised # "none" THEN [s |-> s, result |-> new_value]
            ELSE IF new_value.value = None
            THEN [s |-> Notification(s, "DEEP_NOTIF_WARNING", "DEEP_MSG_NOT_CONVERTED"),
                  result |-> Returned(default)]
            ELSE [s |-> s, result |-> new_value]

\* DEEP_CONFIG: a dictionary in the order of its keys; an entry with a dtype
\* and a default is a parameter, any other dictionary is a section
Leaf(d_type, default) == [dtype |-> d_type, default |-> default]

Section(items) == [items |-> items]

IsLeaf(value) == {"dtype", "default"} \subseteq DOMAIN value

DefaultSizes == PyList(<<PyInt(1), PyInt(2), PyInt(3)>>)

DEEP_CONFIG ==
    Section(<<
      [key |-> "data", value |-> Section(<<
         [key |-> "batch_size", value |-> Leaf(DType(FALSE, "int"), PyInt(4))],
         [key |-> "sizes", value |-> Leaf(DType(TRUE, "int"), DefaultSizes)],
         [key |-> "loader", value |-> Section(<<
            [key |-> "workers", value |-> Leaf(DType(FALSE, "int"), PyInt(1))] >>)]
      >>)] >>)

\* Namespace.get(key) for a list of keys; a Namespace stands for its __dict__
RECURSIVE Namespace_get(_, _)
Namespace_get(namespace, key) ==
    LET dict == namespace.d
    IN IF Len(key) = 0 THEN Raised("IndexError")
       ELSE IF key[1] \notin DOMAIN dict THEN Raised("KeyError")
       ELSE IF Len(key) = 1 THEN Returned(dict[key[1]])
       ELSE IF TypeOf(dict[key[1]]) # "Namespace" THEN Raised("AttributeError")
       ELSE Namespace_get(dict[key[1]], Tail(key))

\* Namespace.check(key, sub_space) on the configuration of c
Namespace_check(c, key, sub_space) ==
    LET got == Namespace_get(c.config, sub_space)
    IN IF got.raised # "none" THEN [c |-> c, result |-> got]
       \* .keys() of a value that is no dictionary
       ELSE IF TypeOf(got.value) # "Namespace"
       THEN [c |-> c, result |-> Raised("AttributeError")]
       ELSE IF key \in DOMAIN got.value.d THEN [c |-> c, result |-> Returned(TRUE)]
       ELSE [c |-> [c EXCEPT !.s = Notification(@, "DEEP_NOTIF_WARNING",
                                                "DEEP_MSG_CONFIG_NOT_FOUND")],
             result |-> Returned(FALSE)]

\* self.config.get(sub_space)[key] = value
RECURSIVE SetItem(_, _, _, _)
SetItem(namespace, sub_space, key, value) ==
    IF Len(sub_space) = 0
    THEN PyNamespace([k \in (DOMAIN namespace.d) \cup {key} |->
                        IF k = key THEN value ELSE namespace.d[k]])
    ELSE PyNamespace([namespace.d EXCEPT ![sub_space[1]] =
                        SetItem(@, Tail(sub_space), key, value)])

\* The body of the loop without the backfill of a parameter that is absent
CheckParameter_no_backfill(c, key, value, sub_space) ==
    LET found == Namespace_check(c, key, sub_space)
    IN IF found.result.raised # "none"
       THEN [c EXCEPT !.s = Raise(@, found.result.raised)]
       ELSE IF found.result.value
       THEN LET current == Namespace_get(c.config, sub_space).value.d[key]
                new == convert_dtype(c.s, current, value.dtype, value.default)
            IN IF new.result.raised # "none"
               THEN [c EXCEPT !.s = Raise(new.s, new.result.raised)]
               ELSE [s |-> new.s,
                     config |-> SetItem(c.config, sub_space, key, new.result.value)]
       ELSE [s |-> Notification(found.c.s, "DEEP_NOTIF_WARNING", "DEEP_MSG_CONFIG_ADDED"),
             config |-> c.config]

\* Brain.__check_config, the body of the loop for a parameter
CheckParameter(c, key, value, sub_space) ==
    LET found == Namespace_check(c, key, sub_space)
    IN IF found.result.raised # "none"
       THEN [c EXCEPT !.s = Raise(@, found.result.raised)]
       ELSE IF found.result.value
       THEN LET current == Namespace_get(c.config, sub_space).value.d[key]
                new == convert_dtype(c.s, current, value.dtype, value.default)
            IN IF new.result.raised # "none"
               THEN [c EXCEPT !.s = Raise(new.s, new.result.raised)]
               ELSE [s |-> new.s,
                     config |-> SetItem(c.config, sub_space, key, new.result.value)]
       ELSE [s |-> Notification(found.c.s, "DEEP_NOTIF_WARNING", "DEEP_MSG_CONFIG_ADDED"),
             config |-> SetItem(c.config, sub_space, key, value.default)]

\* Brain.__check_config(dictionary, sub_space) from item i of the dictionary on
RECURSIVE check_config_items(_, _, _, _)
check_config_items(c, dictionary, i, sub_space) ==
    IF i > Len(dictionary.items) \/ c.s.proc # "running" THEN c
    ELSE LET key == dictionary.items[i].key
             value == dictionary.items[i].value
             c1 == IF IsLeaf(value)
                   THEN CheckParameter(c, key, value, sub_space)
                   ELSE check_config_items(c, value, 1, sub_space \o <<key>>)
         IN check_config_items(c1, dictionary, i + 1, sub_space)

\* Brain.check_config()
check_config(c) ==
    LET c1 == check_config_items(c, DEEP_CONFIG, 1, <<>>)
    IN IF c1.s.proc = "running"
       THEN [c1 EXCEPT !.s = Notification(@, "DEEP_NOTIF_SUCCESS",
                                          "DEEP_MSG_CONFIG_COMPLETE")]
       ELSE c1

\* The items a list of the configuration file can hold
ListItems == {PyStr(<<"1">>), PyStr(<<"x">>), PyStr(<<"3">>), None}

ListValues == {PyList(items) : items \in UNION {[1..k -> ListItems] : k \in 0..MaxItems}}

\* The values __convert_dtype is given
ConvertedValues ==
    {None, PyInt(4), PyStr(<<"8">>), PyStr(<<"x">>)} \cup ListValues

\* The parameters of DEEP_CONFIG by their dtype and default
Parameters ==
    {Leaf(DType(TRUE, "int"), DefaultSizes), Leaf(DType(FALSE, "int"), PyInt(4))}

\* The configurations load_config can leave: the section of a file that was
\* not found is missing, and a file holds what its author wrote
Optional(key, values) == {<<>>} \cup {key :> value : value \in values}

LoaderSections ==
    {PyNamespace(w) : w \in Optional("workers", {PyInt(2), PyStr(<<"x">>)})}

DataSections ==
    {PyNamespace(b @@ z @@ l) :
        b \in Optional("batch_size", {PyInt(4), PyStr(<<"8">>), PyStr(<<"x">>), None}),
        z \in Optional("sizes", {PyList(<<PyStr(<<"1">>), PyStr(<<"x">>), PyStr(<<"3">>)>>),
                                 PyList(<<PyStr(<<"1">>), PyStr(<<"3">>)>>),
                                 PyStr(<<"8">>)}),
        l \in Optional("loader", LoaderSections)}

Configurations ==
    {PyNamespace(d) : d \in Optional("data", DataSections \cup {PyInt(5)})}

\* A Brain whose configuration was loaded
InitBrain ==
    /\ config \in Configurations
    /\ dtype_bound \in {"unbound", "number", "other"}
    /\ converted = None
    /\ _config = None /\ file = None /\ loaded = None /\ heap = <<>>
    /\ InitShell

\* A call of Brain.check_config()
Call_check_config ==
    /\ proc = "running" /\ saver_pc = "idle"
    /\ \E c \in {check_config([s |-> Self, config |-> config])} :
          /\ Commit([c.s EXCEPT !.op = "check_config"])
          /\ config' = c.config
    /\ UNCHANGED <<_config, dtype_bound, converted, namespace_vars, heap,
                   trainer_vars, bus_vars, shell_vars>>

\* A call of Brain.__convert_dtype(value, d_type, default)
Call_convert_dtype(value, parameter) ==
    /\ proc = "running" /\ saver_pc = "idle"
    /\ converted = None
    /\ \E new \in {convert_dtype(Self, value, parameter.dtype, parameter.default)} :
          /\ Commit([(IF new.result.raised # "none"
                      THEN Raise(new.s, new.result.raised)
                      ELSE new.s) EXCEPT !.op = "__convert_dtype"])
          /\ converted' = [value |-> value, d_type |-> parameter.dtype,
                           default |-> parameter.default, result |-> new.result]
    /\ UNCHANGED <<config, _config, dtype_bound, namespace_vars, heap,
                   trainer_vars, bus_vars, shell_vars>>

ConfigNext ==
    \/ Call_check_config
    \/ \E value \in ConvertedValues, parameter \in Parameters :
            Call_convert_dtype(value, parameter)

ConfigInit ==
    /\ InitSaver /\ directory = <<"weights", "/">>
    /\ save_method = "DEEP_SAVE_NET_FORMAT_PYTORCH"
    /\ save_condition = "DEEP_SAVE_CONDITION_AUTO"
    /\ InitTrainer
    /\ initial_epoch = 1 /\ num_epochs = 1 /\ shuffle = "DEEP_SHUFFLE_ALL"
    /\ tester = "None" /\ length_dataset = 0 /\ batch_size = 1
    /\ overwatch_condition = "DEEP_COMPARE_SMALLER"
    /\ InitThalamus /\ InitBrain

ConfigSpec == ConfigInit /\ [][ConfigNext]_vars

\* ------------------------------------------- Namespace.save and load
\* The keys of a saved Namespace are written character by character
Key_a == <<"a">>
Key_b == <<"b">>
Key_x == <<"x">>

\* __dict__.items(): the keys in the order they were inserted
KeyOrder == <<Key_a, Key_b, Key_x>>

\* save(file_path, tab_size=2)
DefaultTabSize == 2

Spaces(n) == [i \in 1..n |-> " "]

\* "%s" % n for an int that is not negative
RECURSIVE Decimal(_)
Decimal(n) ==
    LET digit == CHOOSE c \in Digits : DigitValue(c) = n % 10
    IN IF n < 10 THEN <<digit>> ELSE Decimal(n \div 10) \o <<digit>>

\* "%s" % value for a value that is no str
PercentS(value) ==
    IF value = None THEN <<"N", "o", "n", "e">> ELSE Decimal(value.int)

\* `if isinstance(value, str): value = '"%s"' % value`, then "%s" % value
Format(value) ==
    IF TypeOf(value) = "str" THEN <<"\"">> \o value.chars \o <<"\"">>
    ELSE PercentS(value)

\* Namespace.__get_summary: the lines of one key; the call on a sub-Namespace
\* passes tabs only, so the sub-Namespace is laid out with the default tab size
RECURSIVE get_summary_items(_, _, _, _)
get_summary_items(namespace, tab_size, tabs, k) ==
    IF k > Len(KeyOrder) THEN <<>>
    ELSE IF KeyOrder[k] \notin DOMAIN namespace.d
    THEN get_summary_items(namespace, tab_size, tabs, k + 1)
    ELSE LET key == KeyOrder[k]
             value == namespace.d[key]
             head == Spaces(tab_size * tabs) \o key \o <<":">>
             lines ==
                IF TypeOf(value) = "Namespace"
                THEN <<head>> \o get_summary_items(value, DefaultTabSize, tabs + 1, 1)
                ELSE IF TypeOf(value) = "list"
                THEN <<head>> \o
                     [i \in DOMAIN value.items |->
                        Spaces((tab_size + 1) * tabs) \o <<"-", " ">>
                            \o Format(value.items[i])]
                ELSE <<head \o <<" ">> \o Format(value)>>
         IN lines \o get_summary_items(namespace, tab_size, tabs, k + 1)

\* Namespace.__get_summary(tab_size), as the lines of the text
get_summary(namespace, tab_size) == get_summary_items(namespace, tab_size, 0, 1)

\* str.replace(" None", " Null") on one line
Str_None == <<" ", "N", "o", "n", "e">>
Str_Null == <<" ", "N", "u", "l", "l">>

RECURSIVE Replace(_, _, _)
Replace(s, old, new) ==
    IF Len(s) < Len(old) THEN s
    ELSE IF SubSeq(s, 1, Len(old)) = old
    THEN new \o Replace(SubSeq(s, Len(old) + 1, Len(s)), old, new)
    ELSE <<s[1]>> \o Replace(Tail(s), old, new)

\* Namespace.save(file_path): the text that is written; the pattern holds no
\* line break, so the replacement acts line by line
Namespace_save(namespace, tab_size) ==
    LET summary == get_summary(namespace, tab_size)
    IN [i \in DOMAIN summary |-> Replace(summary[i], Str_None, Str_Null)]

\* yaml.load on the block layout save writes: a line is an indentation, then
\* either "- " and a scalar, or a key, ":" and possibly a scalar
RECURSIVE Indent(_)
Indent(line) ==
    IF Len(line) > 0 /\ line[1] = " " THEN 1 + Indent(Tail(line)) ELSE 0

Body(line) == SubSeq(line, Indent(line) + 1, Len(line))

IsItem(line) ==
    LET body == Body(line)
    IN Len(body) > 0 /\ body[1] = "-" /\ (Len(body) = 1 \/ body[2] = " ")

ItemText(line) == SubSeq(Body(line), 2, Len(Body(line)))

\* The ":" that ends the key: the first one before a blank or the line's end
IsColon(body, i) == body[i] = ":" /\ (i = Len(body) \/ body[i + 1] = " ")

HasColon(body) == \E i \in DOMAIN body : IsColon(body, i)

ColonAt(body) ==
    CHOOSE i \in DOMAIN body :
        IsColon(body, i) /\ \A j \in 1..(i - 1) : ~IsColon(body, j)

EntryKey(line) == SubSeq(Body(line), 1, ColonAt(Body(line)) - 1)

EntryText(line) == SubSeq(Body(line), ColonAt(Body(line)) + 1, Len(Body(line)))

\* The plain scalars YAML reads as null
YamlNulls == {<<"N", "u", "l", "l">>, <<"n", "u", "l", "l">>,
              <<"N", "U", "L", "L">>, <<"~">>}

\* A scalar as yaml.load reads it: empty is null; a double-quoted scalar ends
\* at the next quote and nothing may follow it; a plain scalar is an int when
\* it is all digits, null when it spells null, a str otherwise
ParseScalar(text) ==
    LET t == Strip(text)
        quotes == {j \in 2..Len(t) : t[j] = "\""}
        closing == CHOOSE j \in quotes : \A k \in quotes : j <= k
    IN IF Len(t) = 0 THEN Returned(None)
       ELSE IF t[1] = "\""
       THEN IF quotes = {} THEN Raised("ScannerError")
            ELSE IF closing < Len(t) THEN Raised("ParserError")
            ELSE Returned(PyStr(SubSeq(t, 2, closing - 1)))
       ELSE IF \A i \in DOMAIN t : t[i] \in Digits
       THEN Returned(PyInt(DigitsValue(t)))
       ELSE IF t \in YamlNulls THEN Returned(None)
       ELSE Returned(PyStr(t))

\* What yaml.load builds for a mapping
PyDict(dict) == [type |-> "dict", d |-> dict]

\* A block sequence: the items at indentation n from line i on
RECURSIVE ParseSeq(_, _, _, _)
ParseSeq(lines, i, n, acc) ==
    IF i > Len(lines) \/ ~IsItem(lines[i]) \/ Indent(lines[i]) # n
    THEN [result |-> Returned(PyList(acc)), next |-> i]
    ELSE LET item == ParseScalar(ItemText(lines[i]))
         IN IF item.raised # "none" THEN [result |-> item, next |-> i]
            ELSE ParseSeq(lines, i + 1, n, Append(acc, item.value))

\* A block mapping: the entries at indentation n from line i on. A key with
\* nothing after its ":" holds the sequence or the deeper mapping that
\* follows it, and null when neither follows
RECURSIVE ParseMap(_, _, _, _)
ParseMap(lines, i, n, acc) ==
    IF i > Len(lines) \/ Indent(lines[i]) < n
    THEN [result |-> Returned(PyDict(acc)), next |-> i]
    ELSE IF Indent(lines[i]) > n \/ IsItem(lines[i]) \/ ~HasColon(Body(lines[i]))
    THEN [result |-> Raised("ParserError"), next |-> i]
    ELSE LET key == EntryKey(lines[i])
             text == Strip(EntryText(lines[i]))
             below == i < Len(lines) /\ Len(text) = 0
             held ==
                IF Len(text) > 0
                THEN [result |-> ParseScalar(text), next |-> i + 1]
                ELSE IF below /\ IsItem(lines[i + 1]) /\ Indent(lines[i + 1]) >= n
                THEN ParseSeq(lines, i + 1, Indent(lines[i + 1]), <<>>)
                ELSE IF below /\ Indent(lines[i + 1]) > n
                THEN ParseMap(lines, i + 1, Indent(lines[i + 1]), <<>>)
                ELSE [result |-> Returned(None), next |-> i + 1]
         IN IF held.result.raised # "none" THEN held
            ELSE ParseMap(lines, held.next, n, acc @@ (key :> held.result.value))

\* yaml.load(file): an empty document is None
yaml_load(lines) ==
    IF Len(lines) = 0 THEN Returned(None)
    ELSE ParseMap(lines, 1, Indent(lines[1]), <<>>).result

\* Namespace.__dict2namespace(dictionary); .items() of None raises
RECURSIVE dict2namespace(_)
dict2namespace(dictionary) ==
    IF TypeOf(dictionary) # "dict" THEN Raised("AttributeError")
    ELSE Returned(PyNamespace(
            [key \in DOMAIN dictionary.d |->
                IF TypeOf(dictionary.d[key]) = "dict"
                THEN dict2namespace(dictionary.d[key]).value
                ELSE dictionary.d[key]]))

\* Namespace.__yaml2namespace(file_name)
yaml2namespace(lines) ==
    LET dictionary == yaml_load(lines)
    IN IF dictionary.raised # "none" THEN dictionary
       ELSE dict2namespace(dictionary.value)

\* Namespace().load(yaml_path): each key of the file is added to the fresh
\* Namespace
Namespace_load(lines) == yaml2namespace(lines)

\* The scalars a Namespace holds: None, numbers and strings, among them the
\* empty string, a string that holds a quote and one that holds " None"
SavedScalars ==
    {None, PyInt(1), PyInt(12), PyStr(<<>>), PyStr(<<"a">>),
     PyStr(<<"a", "\"", "b">>), PyStr(<<"a", " ", "N", "o", "n", "e">>)}

\* The ordered sequences of scalars a Namespace holds
SavedSequences ==
    {PyList(items) :
        items \in UNION {[1..k -> {PyInt(1), PyStr(<<"a">>), None}] : k \in 0..MaxSeqLen}}

SavedLeaves == SavedScalars \cup SavedSequences

Held(key, values) == {<<>>} \cup {key :> value : value \in values}

\* The Namespaces that are saved: a scalar or a sequence under "a", and under
\* "b" a scalar, a sequence or a Namespace that holds a sub-Namespace
InnerNamespaces == {PyNamespace(x) : x \in Held(Key_x, SavedLeaves)}

MiddleNamespaces ==
    {PyNamespace(a @@ x) :
        a \in Held(Key_a, {PyInt(1)}), x \in Held(Key_x, {PyNamespace(<<>>)} \cup
            {PyNamespace(Key_a :> PyList(<<PyInt(1), PyStr(<<"a">>)>>))})}

SavedNamespaces ==
    {PyNamespace(a @@ b) :
        a \in Held(Key_a, SavedLeaves),
        b \in Held(Key_b, SavedLeaves \cup InnerNamespaces \cup MiddleNamespaces)}

Written(lines) == [lines |-> lines]

\* namespace.save(file_path) on the Namespace held in config
Call_save ==
    /\ proc = "running" /\ saver_pc = "idle"
    /\ file = None
    /\ file' = Written(Namespace_save(config, DefaultTabSize))
    /\ Commit([Self EXCEPT !.op = "save"])
    /\ UNCHANGED <<config, _config, dtype_bound, converted, loaded, heap,
                   trainer_vars, bus_vars, shell_vars>>

\* Namespace().load(file_path) on the file that was saved
Call_load ==
    /\ proc = "running" /\ saver_pc = "idle"
    /\ file # None /\ loaded = None
    /\ \E fresh \in {Namespace_load(file.lines)} :
          /\ loaded' = fresh
          /\ Commit([(IF fresh.raised # "none" THEN Raise(Self, fresh.raised)
                      ELSE Self) EXCEPT !.op = "load"])
    /\ UNCHANGED <<config, _config, dtype_bound, converted, file, heap,
                   trainer_vars, bus_vars, shell_vars>>

NamespaceNext == Call_save \/ Call_load

NamespaceInit ==
    /\ InitSaver /\ directory = <<"weights", "/">>
    /\ save_method = "DEEP_SAVE_NET_FORMAT_PYTORCH"
    /\ save_condition = "DEEP_SAVE_CONDITION_AUTO"
    /\ InitTrainer
    /\ initial_epoch = 1 /\ num_epochs = 1 /\ shuffle = "DEEP_SHUFFLE_ALL"
    /\ tester = "None" /\ length_dataset = 0 /\ batch_size = 1
    /\ overwatch_condition = "DEEP_COMPARE_SMALLER"
    /\ InitThalamus
    /\ config \in SavedNamespaces
    /\ _config = None /\ dtype_bound = "unbound" /\ converted = None
    /\ file = None /\ loaded = None /\ heap = <<>>
    /\ InitShell

NamespaceSpec == NamespaceInit /\ [][NamespaceNext]_vars

\* ------------------------------------------ the stored configuration
\* Namespace objects have an identity: heap[id] is the __dict__ of object id,
\* and a Namespace held by a variable or by another Namespace is a reference
Ref(id) == [type |-> "ref", id |-> id]

\* The Namespace an object stands for, the sub-Namespaces followed
RECURSIVE Value(_, _)
Value(h, id) ==
    PyNamespace([key \in DOMAIN h[id] |->
                    IF h[id][key].type = "ref" THEN Value(h, h[id][key].id)
                    ELSE h[id][key]])

\* The keys of a configuration, in the order copy.deepcopy walks a __dict__
ConfigKeys == <<"data", "batch_size">>

\* copy.deepcopy of the __dict__ of an object from key k on: a Namespace it
\* holds is copied, any other value is kept
RECURSIVE deepcopy_items(_, _, _, _)
deepcopy_items(h, id, k, dict) ==
    IF k > Len(ConfigKeys) THEN [heap |-> h, dict |-> dict]
    ELSE IF ConfigKeys[k] \notin DOMAIN h[id]
    THEN deepcopy_items(h, id, k + 1, dict)
    ELSE LET key == ConfigKeys[k]
             value == h[id][key]
         IN IF value.type = "ref"
            THEN LET sub == deepcopy_items(h, value.id, 1, <<>>)
                     h1 == Append(sub.heap, sub.dict)
                 IN deepcopy_items(h1, id, k + 1, dict @@ (key :> Ref(Len(h1))))
            ELSE deepcopy_items(h, id, k + 1, dict @@ (key :> value))

\* A copy that shares the Namespaces the object holds
copy_shallow(h, id) == [heap |-> Append(h, h[id]), ref |-> Ref(Len(h) + 1)]

\* Namespace.copy(): copy.deepcopy(self)
copy(h, id) ==
    LET new == deepcopy_items(h, id, 1, <<>>)
    IN [heap |-> Append(new.heap, new.dict), ref |-> Ref(Len(new.heap) + 1)]

\* The values a configuration file gives batch_size
BatchSizes == {PyInt(4), PyInt(8)}

\* Brain.__init__ -> load_config with a configuration directory: clear_config,
\* the Namespace of each file that was found is added, then store_config
LoadedHeaps ==
    {<<<<>>>>} \cup {<<"data" :> Ref(2), "batch_size" :> v>> : v \in BatchSizes}

InitStore ==
    /\ config = Ref(1)
    /\ \E h \in LoadedHeaps :
          /\ heap = copy(h, 1).heap
          /\ _config = copy(h, 1).ref
    /\ dtype_bound = "unbound" /\ converted = None
    /\ file = None /\ loaded = None
    /\ InitShell

\* Brain.store_config()
Call_store_config ==
    /\ proc = "running" /\ saver_pc = "idle"
    /\ Len(heap) + Len(ConfigKeys) <= MaxObjects
    /\ \E new \in {copy(heap, config.id)} :
          /\ heap' = new.heap
          /\ _config' = new.ref
    /\ Commit([Self EXCEPT !.op = "store_config"])
    /\ UNCHANGED <<config, dtype_bound, converted, namespace_vars,
                   trainer_vars, bus_vars, shell_vars>>

\* Brain.restore_config()
Call_restore_config ==
    /\ proc = "running" /\ saver_pc = "idle"
    /\ Len(heap) + Len(ConfigKeys) <= MaxObjects
    /\ \E new \in {copy(heap, _config.id)} :
          /\ heap' = new.heap
          /\ config' = new.ref
    /\ Commit([Self EXCEPT !.op = "restore_config"])
    /\ UNCHANGED <<_config, dtype_bound, converted, namespace_vars,
                   trainer_vars, bus_vars, shell_vars>>

\* Brain.clear_config(): self.config = Namespace()
Call_clear_config ==
    /\ proc = "running" /\ saver_pc = "idle"
    /\ Len(heap) < MaxObjects
    /\ heap' = Append(heap, <<>>)
    /\ config' = Ref(Len(heap) + 1)
    /\ Commit([Self EXCEPT !.op = "clear_config"])
    /\ UNCHANGED <<_config, dtype_bound, converted, namespace_vars,
                   trainer_vars, bus_vars, shell_vars>>

\* self.config.add({"data": Namespace(path)}): the __dict__ of the live
\* configuration is updated in place
Call_add(v) ==
    /\ proc = "running" /\ saver_pc = "idle"
    /\ Len(heap) < MaxObjects
    /\ LET h1 == Append(heap, "batch_size" :> v)
       IN heap' = [h1 EXCEPT ![config.id] =
                      [key \in (DOMAIN @) \cup {"data"} |->
                          IF key = "data" THEN Ref(Len(h1)) ELSE @[key]]]
    /\ Commit([Self EXCEPT !.op = "add"])
    /\ UNCHANGED <<config, _config, dtype_bound, converted, namespace_vars,
                   trainer_vars, bus_vars, shell_vars>>

\* self.config.get(["data"])["batch_size"] = v: the __dict__ of the
\* sub-Namespace is updated in place
Call_setitem(v) ==
    /\ proc = "running" /\ saver_pc = "idle"
    /\ "data" \in DOMAIN heap[config.id]
    /\ heap[heap[config.id]["data"].id]["batch_size"] # v
    /\ heap' = [heap EXCEPT ![heap[config.id]["data"].id] = "batch_size" :> v]
    /\ Commit([Self EXCEPT !.op = "setitem"])
    /\ UNCHANGED <<config, _config, dtype_bound, converted, namespace_vars,
                   trainer_vars, bus_vars, shell_vars>>

StoreNext ==
    \/ Call_store_config
    \/ Call_restore_config
    \/ Call_clear_config
    \/ \E v \in BatchSizes : Call_add(v)
    \/ \E v \in BatchSizes : Call_setitem(v)

StoreInit ==
    /\ InitSaver /\ directory = <<"weights", "/">>
    /\ save_method = "DEEP_SAVE_NET_FORMAT_PYTORCH"
    /\ save_condition = "DEEP_SAVE_CONDITION_AUTO"
    /\ InitTrainer
    /\ initial_epoch = 1 /\ num_epochs = 1 /\ shuffle = "DEEP_SHUFFLE_ALL"
    /\ tester = "None" /\ length_dataset = 0 /\ batch_size = 1
    /\ overwatch_condition = "DEEP_COMPARE_SMALLER"
    /\ InitThalamus /\ InitStore

StoreSpec == StoreInit /\ [][StoreNext]_vars

\* --------------------------------------------- one minibatch of __train
\* GenericInferer.clean_single_element_list with every one-element list
\* unwrapped to the bottom
RECURSIVE Unwrapped(_)
Unwrapped(entry) ==
    IF TypeOf(entry) = "list" /\ Len(entry.items) = 1 THEN Unwrapped(entry.items[1])
    ELSE IF TypeOf(entry) = "list" /\ Len(entry.items) = 0 THEN None
    ELSE entry

clean_single_element_list_deep(minibatch) ==
    [i \in DOMAIN minibatch |-> Unwrapped(minibatch[i])]

\* GenericInferer.clean_single_element_list(minibatch)
clean_single_element_list(minibatch) ==
    [i \in DOMAIN minibatch |->
        IF TypeOf(minibatch[i]) = "list" /\ Len(minibatch[i].items) = 1
        THEN minibatch[i].items[1]
        ELSE IF TypeOf(minibatch[i]) = "list" /\ Len(minibatch[i].items) = 0
        THEN None
        ELSE minibatch[i]]

\* A tensor, attached to the graph that backward walks or not
Tensor(graph) == [type |-> "Tensor", graph |-> graph]

\* A Python number
PyFloat == [type |-> "float"]

\* Tensor.detach()
Tensor_detach(value) == [value EXCEPT !.graph = FALSE]

\* Trainer.detach that leaves the metrics as they are
detach_losses_only(total_loss, result_losses, result_metrics) ==
    [total_loss |-> Tensor_detach(total_loss),
     result_losses |-> [key \in DOMAIN result_losses |->
                            Tensor_detach(result_losses[key])],
     result_metrics |-> result_metrics]

\* Trainer.detach(total_loss, result_losses, result_metrics)
detach(total_loss, result_losses, result_metrics) ==
    [total_loss |-> Tensor_detach(total_loss),
     result_losses |-> [key \in DOMAIN result_losses |->
                            Tensor_detach(result_losses[key])],
     result_metrics |-> [key \in DOMAIN result_metrics |->
                            IF result_metrics[key].type = "Tensor"
                            THEN Tensor_detach(result_metrics[key])
                            ELSE result_metrics[key]]]

\* The fields a Dataset puts into a minibatch: lists of no, one or two
\* items, a list that holds an empty list, and a value that is no list
MinibatchEntries ==
    {PyList(<<>>), PyList(<<PyInt(1)>>), PyList(<<PyInt(1), PyInt(2)>>),
     PyList(<<PyList(<<>>)>>), PyInt(7)}

Minibatches == UNION {[1..k -> MinibatchEntries] : k \in 0..MaxFields}

\* The losses and the metrics of a Trainer: a metric function returns a
\* tensor or a plain number
LossNames == {{"loss"}, {"loss", "aux"}}

MetricKinds ==
    {<<>>} \cup {"accuracy" :> kind : kind \in {"Tensor", "float"}}

\* The dataloader hands the body of the loop a minibatch
InitBatch ==
    \E minibatch \in Minibatches, losses \in LossNames, metrics \in MetricKinds :
        batch = [minibatch |-> minibatch, losses |-> losses, metrics |-> metrics,
                 done |-> 0, cleaned |-> None, grad |-> FALSE, stepped |-> 0,
                 total_loss |-> None, result_losses |-> None,
                 result_metrics |-> None, handed |-> None, raised |-> "none"]

\* One statement of the body of the minibatch loop
Exec(b, statement) ==
    CASE statement = "clean_single_element_list" ->
            \* `inputs, labels, additional_data = ...` unpacks three fields
            LET cleaned == clean_single_element_list(b.minibatch)
            IN [b EXCEPT !.cleaned = cleaned,
                         !.raised = IF Len(cleaned) = 3 THEN "none" ELSE "ValueError"]
      [] statement = "optimizer.zero_grad" -> [b EXCEPT !.grad = FALSE]
      [] statement = "compute_metrics(losses)" ->
            [b EXCEPT !.result_losses = [key \in b.losses |-> Tensor(TRUE)]]
      [] statement = "compute_metrics(metrics)" ->
            [b EXCEPT !.result_metrics =
                [key \in DOMAIN b.metrics |->
                    IF b.metrics[key] = "Tensor" THEN Tensor(TRUE) ELSE PyFloat]]
      [] statement = "sum_dict" -> [b EXCEPT !.total_loss = Tensor(TRUE)]
      [] statement = "total_loss.backward" ->
            \* backward needs the graph of the loss
            IF b.total_loss.graph THEN [b EXCEPT !.grad = TRUE]
            ELSE [b EXCEPT !.raised = "RuntimeError"]
      [] statement = "optimizer.step" -> [b EXCEPT !.stepped = @ + 1]
      [] statement = "detach" ->
            LET detached == detach(b.total_loss, b.result_losses, b.result_metrics)
            IN [b EXCEPT !.total_loss = detached.total_loss,
                         !.result_losses = detached.result_losses,
                         !.result_metrics = detached.result_metrics]
      [] statement = "callbacks.on_batch_end" ->
            \* total_loss.item() is a number
            [b EXCEPT !.handed = [total_loss |-> PyFloat,
                                  result_losses |-> b.result_losses,
                                  result_metrics |-> b.result_metrics]]
      [] OTHER -> b

\* The next statement of the minibatch is executed
Batch_statement ==
    /\ proc = "running" /\ saver_pc = "idle"
    /\ batch.done < Len(MinibatchSteps)
    /\ \E b \in {Exec(batch, MinibatchSteps[batch.done + 1])} :
          /\ batch' = [b EXCEPT !.done = @ + 1]
          /\ Commit([(IF b.raised # "none" THEN Raise(Self, b.raised) ELSE Self)
                     EXCEPT !.op = MinibatchSteps[batch.done + 1]])
    /\ UNCHANGED <<pc, initial_epoch, num_epochs, shuffle, tester, first_training,
                   length_dataset, batch_size, num_minibatches, epoch,
                   minibatch_index, paused, n_train_begin, n_unpause, n_pause,
                   n_epoch_start, n_batch_end, n_epoch_end, n_training_end,
                   n_optimizer_step, n_evaluate, overwatch_condition, calls>>
    /\ UNCHANGED <<bus_vars, brain_vars>>

BatchNext == Batch_statement

BatchInit ==
    /\ InitSaver /\ directory = <<"weights", "/">>
    /\ save_method = "DEEP_SAVE_NET_FORMAT_PYTORCH"
    /\ save_condition = "DEEP_SAVE_CONDITION_AUTO"
    /\ pc = "minibatch"
    /\ initial_epoch = 0 /\ num_epochs = 1 /\ shuffle = "DEEP_SHUFFLE_ALL"
    /\ tester = "None" /\ first_training = TRUE
    /\ length_dataset = 1 /\ batch_size = 1
    /\ num_minibatches = compute_num_minibatches(length_dataset, batch_size)
    /\ epoch = 1 /\ minibatch_index = 0 /\ paused = FALSE
    /\ n_train_begin = 1 /\ n_unpause = 0 /\ n_pause = 0
    /\ n_epoch_start = 1 /\ n_batch_end = 0 /\ n_epoch_end = 0
    /\ n_training_end = 0 /\ n_optimizer_step = 0 /\ n_evaluate = 0
    /\ overwatch_condition = "DEEP_COMPARE_SMALLER"
    /\ calls = <<"callbacks.on_epoch_start">>
    /\ InitBatch
    /\ InitThalamus /\ InitBrainIdle

BatchSpec == BatchInit /\ [][BatchNext]_vars

\* ------------------------------------------------- the Brain's command line
\* The sub-commands the operator types: two that name public methods, the
\* exit flag, and three that the filter lists of the flags module catch
\* (a private name, wake() and config.save)
ShellCommands == {"load()", "train()", "quit", "_config", "wake()", "config.save"}

\* DEEP_EXIT_FLAGS
DEEP_EXIT_FLAGS == {"quit"}

\* DEEP_FILTER_STARTS_WITH .. DEEP_FILTER_INCLUDES: the sub-commands one of
\* the five rules of __preprocess_command matches
Filtered == {"_config", "wake()", "config.save"}

\* The inner loops of __preprocess_command: `remove`
remove(c) == c \in Filtered

\* list.remove(x): the first item equal to x is taken out
list_remove(list, x) ==
    LET at == CHOOSE i \in 1..Len(list) :
                  list[i] = x /\ \A j \in 1..(i - 1) : list[j] # x
    IN SubSeq(list, 1, at - 1) \o SubSeq(list, at + 1, Len(list))

\* `for command in commands:` of __preprocess_command, the list iterator
\* standing at position i of the list that the body shrinks
RECURSIVE preprocess_loop(_, _, _)
preprocess_loop(commands, i, s) ==
    IF i > Len(commands) THEN [commands |-> commands, s |-> s]
    ELSE IF remove(commands[i])
    THEN preprocess_loop(list_remove(commands, commands[i]), i + 1,
             \* __illegal_command_messages(command)
             Notification(s, "DEEP_NOTIF_WARNING",
                          <<"DEEP_MSG_ILLEGAL_COMMAND", commands[i]>>))
    ELSE preprocess_loop(commands, i + 1, s)

\* Brain.__preprocess_command(command), the line already split on " & ";
\* no sub-command carries a flag of DEEP_CMD_FLAGS
preprocess_command(commands, s) == preprocess_loop(commands, 1, s)

\* The loop of __execute_command over the sub-commands that are left:
\* an exit flag calls sleep(), which ends the process
RECURSIVE execute_loop(_, _, _)
execute_loop(commands, i, r) ==
    IF i > Len(commands) \/ r.s.proc # "running" THEN r
    ELSE IF commands[i] \in DEEP_EXIT_FLAGS
    THEN execute_loop(commands, i + 1, [r EXCEPT !.s = End(@)])
    ELSE execute_loop(commands, i + 1, [r EXCEPT !.execs = Append(@, commands[i])])

\* Brain.__execute_command(command)
execute_command(commands, s) ==
    LET p == preprocess_command(commands, s)
    IN execute_loop(p.commands, 1, [s |-> p.s, execs |-> <<>>])

\* The lines the operator types
ShellLines == UNION {[1..k -> ShellCommands] : k \in 1..MaxCommands}

\* wake(): a line is read and executed
Call_execute_command(commands) ==
    /\ proc = "running" /\ saver_pc = "idle"
    /\ \E r \in {execute_command(commands, Self)} :
          /\ Commit([r.s EXCEPT !.op = "__execute_command"])
          /\ execs' = r.execs
    /\ command' = commands
    /\ UNCHANGED <<config, _config, dtype_bound, converted, namespace_vars, heap,
                   trainer_vars, bus_vars>>

ShellNext == \E commands \in ShellLines : Call_execute_command(commands)

ShellInit == SaverInit /\ directory = <<"weights", "/">>

ShellSpec == ShellInit /\ [][ShellNext]_vars

\* ------------------------------------------------------ Brain.load_config
\* DEEP_CONFIG_FILES: the sections of the configuration, one file each
ExpectedFiles == <<"project", "data", "model">>

\* What a configuration file holds
FileContents == {PyNamespace("name" :> PyInt(v)) : v \in {1, 2, 3}}

\* The files of a configuration directory: a content for each file found
ConfigDirectories ==
    UNION {[found -> FileContents] : found \in SUBSET Range(ExpectedFiles)}

\* `for key, file_name in DEEP_CONFIG_FILES.items()` from file k on: a file
\* that is found is reported and added, a missing one is reported
RECURSIVE load_config_files(_, _, _)
load_config_files(s, files, k) ==
    IF k > Len(ExpectedFiles) THEN s
    ELSE load_config_files(
            IF ExpectedFiles[k] \in DOMAIN files
            THEN Notification(s, "DEEP_NOTIF_SUCCESS", "DEEP_MSG_LOAD_CONFIG_FILE")
            ELSE Notification(s, "DEEP_NOTIF_ERROR", "DEEP_MSG_FILE_NOT_FOUND"),
            files, k + 1)

\* Namespace.summary() of self.config: None has no summary
config_summary(r) ==
    IF r.config = None THEN [r EXCEPT !.s = Raise(@, "AttributeError")]
    ELSE [r EXCEPT !.s = Notification(@, "DEEP_NOTIF_INFO", "summary")]

\* Brain.load_config(): isdir tells whether config_dir is a directory,
\* files what it holds
load_config(s, live, stored, isdir, files) ==
    LET s0 == Notification(s, "DEEP_NOTIF_INFO", "DEEP_MSG_LOAD_CONFIG_START")
    IN  config_summary(
            IF isdir
            THEN [s |-> load_config_files(s0, files, 1),
                  \* clear_config(), config.add per file, store_config()
                  config |-> PyNamespace(files),
                  _config |-> PyNamespace(files)]
            ELSE [s |-> Notification(s0, "DEEP_NOTIF_ERROR", "DEEP_MSG_DIR_NOT_FOUND"),
                  config |-> live, _config |-> stored])

\* Brain.__init__ calls load_config, and so can the operator afterwards
Call_load_config(isdir, files) ==
    /\ proc = "running" /\ saver_pc = "idle"
    /\ \E r \in {load_config(Self, config, _config, isdir, files)} :
          /\ Commit([r.s EXCEPT !.op = "load_config"])
          /\ config' = r.config
          /\ _config' = r._config
    /\ UNCHANGED <<dtype_bound, converted, namespace_vars, heap,
                   trainer_vars, bus_vars, shell_vars>>

LoadNext ==
    \E isdir \in BOOLEAN, files \in ConfigDirectories : Call_load_config(isdir, files)

\* Brain.__init__ up to its call of load_config: config and _config are None
LoadInit == SaverInit /\ directory = <<"weights", "/">>

LoadSpec == LoadInit /\ [][LoadNext]_vars

\* ------------------------------------------------------------------ claims
\* A step in which is_saving_required ran on a metric of the given condition
Observed(condition) ==
    /\ n_obs' = n_obs + 1
    /\ cur_metric'.condition = condition

\* The saving_required value of the signal the latest observation added
LastSavingRequired == signals[Len(signals)].saving_required

\* C1: under the on-improvement policy with LOWER_IS_BETTER metrics, the first
\* observation adopts the metric and signals no save; a later observation
\* signals a save and replaces the best metric exactly when its value is
\* strictly lower than the held best value, and otherwise leaves it unchanged.
C1_LowerIsBetter ==
    [][ (save_condition = "DEEP_SAVE_CONDITION_AUTO" /\ Observed("DEEP_COMPARE_SMALLER"))
        => /\ Len(signals') = Len(signals) + 1
           /\ save_calls' = save_calls
           /\ IF best_overwatch_metric = None
              THEN /\ LastSavingRequired' = FALSE
                   /\ best_overwatch_metric' = cur_metric'
              ELSE IF cur_metric'.value < best_overwatch_metric.value
              THEN /\ LastSavingRequired' = TRUE
                   /\ best_overwatch_metric' = cur_metric'
              ELSE /\ LastSavingRequired' = FALSE
                   /\ best_overwatch_metric' = best_overwatch_metric ]_vars

\* A first observation that signalled no save, then a strictly lower one that did
C1_Witness ==
    /\ save_condition = "DEEP_SAVE_CONDITION_AUTO"
    /\ n_obs = 2 /\ Len(signals) = 2
    /\ cur_metric.condition = "DEEP_COMPARE_SMALLER"
    /\ signals[1].saving_required = FALSE
    /\ signals[2].saving_required = TRUE
    /\ best_overwatch_metric = cur_metric
    /\ cur_metric.value = 0

\* C2: under the on-improvement policy with HIGHER_IS_BETTER metrics, the first
\* observation adopts the metric and signals no save; a later observation
\* signals a save and replaces the best metric exactly when its value is
\* strictly greater than the held best value, and otherwise leaves it unchanged.
C2_HigherIsBetter ==
    [][ (save_condition = "DEEP_SAVE_CONDITION_AUTO" /\ Observed("DEEP_COMPARE_BIGGER"))
        => /\ Len(signals') = Len(signals) + 1
           /\ save_calls' = save_calls
           /\ IF best_overwatch_metric = None
              THEN /\ LastSavingRequired' = FALSE
                   /\ best_overwatch_metric' = cur_metric'
              ELSE IF cur_metric'.value > best_overwatch_metric.value
              THEN /\ LastSavingRequired' = TRUE
                   /\ best_overwatch_metric' = cur_metric'
              ELSE /\ LastSavingRequired' = FALSE
                   /\ best_overwatch_metric' = best_overwatch_metric ]_vars

\* A first observation that signalled no save, then a strictly greater one that did
C2_Witness ==
    /\ save_condition = "DEEP_SAVE_CONDITION_AUTO"
    /\ n_obs = 2 /\ Len(signals) = 2
    /\ cur_metric.condition = "DEEP_COMPARE_BIGGER"
    /\ signals[1].saving_required = FALSE
    /\ signals[2].saving_required = TRUE
    /\ best_overwatch_metric = cur_metric
    /\ cur_metric.value = MaxValue

\* value b is strictly better than value a under the comparison mode
Improves(mode, a, b) ==
    \/ mode = "DEEP_COMPARE_SMALLER" /\ b < a
    \/ mode = "DEEP_COMPARE_BIGGER" /\ b > a

\* The best metric is absent before the first observation and present after it
BestPresence ==
    /\ n_obs = 0 => best_overwatch_metric = None
    /\ n_obs > 0 => best_overwatch_metric \in OverWatchMetrics

\* C3 (as stated): the Saver holds one best metric, absent before the first
\* observation and present after it, and every replacement of the best metric
\* moves its value strictly in the improving direction of the held best
\* metric's own comparison mode, also when the observed modes differ.
C3_AsStated ==
    /\ []BestPresence
    /\ [][ (best_overwatch_metric # None /\ best_overwatch_metric' # best_overwatch_metric)
           => Improves(best_overwatch_metric.condition,
                       best_overwatch_metric.value, best_overwatch_metric'.value) ]_vars

\* C3 (amended): the Saver holds one best metric, absent before the first
\* observation and present after it, and every replacement of the best metric
\* installs the observed metric, whose value is strictly better than the held
\* one in the observed metric's comparison mode; so the best value never gets
\* worse in its own mode when the held and the observed modes agree.
C3_ImprovesInObservedMode ==
    /\ []BestPresence
    /\ [][ (best_overwatch_metric # None /\ best_overwatch_metric' # best_overwatch_metric)
           => /\ best_overwatch_metric' = cur_metric'
              /\ n_obs' = n_obs + 1
              /\ Improves(cur_metric'.condition,
                          best_overwatch_metric.value, best_overwatch_metric'.value)
              /\ (best_overwatch_metric.condition = best_overwatch_metric'.condition
                    => Improves(best_overwatch_metric.condition,
                                best_overwatch_metric.value,
                                best_overwatch_metric'.value)) ]_vars

\* Three observations, the second and the third each replacing the best metric
C3_Witness ==
    /\ n_obs = 3 /\ Len(signals) = 3
    /\ signals[2].saving_required = TRUE
    /\ signals[3].saving_required = TRUE
    /\ best_overwatch_metric = cur_metric

\* C4: a metric_computed event delivered to a Saver whose policy is
\* EVERY_EPOCH saves the model: one save_model call per delivered event.
C4_EveryEpochSaves ==
    [][ ( /\ save_condition = "DEEP_SAVE_CONDITION_END_EPOCH"
          /\ op' = "OVERWATCH_METRIC_COMPUTED"
          /\ n_obs' = n_obs + 1 )
        => save_calls' = save_calls + 1 ]_vars

C6_EndToEnd ==
    (pc = "training_end" /\ first_training /\ tester = "Tester")
    => /\ n_epoch_end = num_epochs
       /\ n_batch_end = num_epochs * DataLoaderLen
       /\ (save_condition = "DEEP_SAVE_CONDITION_END_EPOCH" => writes = num_epochs)

\* The operator's answer at the "Number of epochs ?" prompt in this step
EpochsAnswered == pc = "epochs_prompt" /\ op' = "answer_epochs"

\* C7: answering the number-of-epochs prompt with a positive integer k adds k
\* to num_epochs and re-enters fit with first_training false, leaving the
\* epoch loop variable, the optimizer steps taken and on_train_begin's count
\* untouched; the resumed pass unpauses instead of calling on_train_begin and
\* the loop variable never moves backwards.
C7_ContinueExtends ==
    [][ /\ (EpochsAnswered /\ ~IntRaisesValueError(response') /\ Int_(response') > 0)
           => /\ num_epochs' = num_epochs + Int_(response')
              /\ pc' = "fit"
              /\ first_training' = FALSE
              /\ initial_epoch' >= num_epochs
              /\ epoch' = epoch
              /\ n_optimizer_step' = n_optimizer_step
              /\ n_train_begin' = n_train_begin
        /\ (pc = "fit" /\ ~first_training)
           => /\ n_train_begin' = n_train_begin
              /\ n_unpause' = n_unpause + 1
              /\ n_optimizer_step' = n_optimizer_step
        /\ epoch' >= epoch
        /\ n_train_begin' =< 1 ]_vars

\* Training was extended by 2 epochs after a pass that took optimizer steps
C7_Witness ==
    /\ op = "answer_epochs" /\ pc = "fit"
    /\ Int_(response) = 2
    /\ first_training = FALSE
    /\ n_optimizer_step > 0
    /\ n_train_begin = 1

\* C8: at the number-of-epochs prompt an answer that is no integer, or an
\* integer <= 0, is rejected: the prompt is asked again and num_epochs is
\* unchanged.
C8_RejectedIsAskedAgain ==
    [][ (EpochsAnswered /\ (IntRaisesValueError(response') \/ Int_(response') =< 0))
        => /\ pc' = "epochs_prompt"
           /\ num_epochs' = num_epochs
           /\ proc' = "running" ]_vars

\* A notification of the given type is among those of the latest operation
Notified(type) == \E i \in DOMAIN notifs : notifs[i].type = type

\* C9: when serialization fails inside save_model, an error notification is
\* emitted, no exception leaves save_model and the recovery flow waits at its
\* retry prompt.
C9_FailureEntersRecovery ==
    [][ (save_calls' = save_calls + 1 /\ writes' = writes)
        => /\ Notified("DEEP_NOTIF_ERROR")'
           /\ exc' = "none"
           /\ proc' = "running"
           /\ saver_pc' = "retry" ]_vars

\* The operator's answer at a prompt of the recovery flow in this step
RecoveryAnswered(prompt) == saver_pc = prompt /\ op' = "answer"

\* C10: the yes/no prompts of the recovery flow accept y and n in either
\* case and ask again on anything else: y at the retry prompt re-runs the
\* save, n leads to the other-format prompt; there y leads to the format
\* prompt and n to the abort confirmation.
C10_PromptsAcceptYesAndNo ==
    [][ /\ RecoveryAnswered("retry")
           => /\ Lower(response') = Str_y => save_calls' = save_calls + 1
              /\ Lower(response') = Str_n => saver_pc' = "another_format"
              /\ Lower(response') \notin {Str_y, Str_n} => saver_pc' = "retry"
        /\ RecoveryAnswered("another_format")
           => /\ Lower(response') = Str_y => saver_pc' = "format"
              /\ Lower(response') = Str_n => saver_pc' = "close"
              /\ Lower(response') \notin {Str_y, Str_n} => saver_pc' = "another_format"
      ]_vars

\* C13: every save_model call whose serialization succeeds emits a success
\* notification, and save_model is idempotent: each call writes the one
\* target path the previous call wrote, and no call changes the Saver's best
\* metric, policy, format, directory, name or extension.
C13_SaveIsIdempotent ==
    [][ save_calls' = save_calls + 1
        => /\ writes' = writes + 1 => Notified("DEEP_NOTIF_SUCCESS")'
           /\ last_path # None => last_path' = last_path
           /\ UNCHANGED <<best_overwatch_metric, save_condition, save_method,
                          directory, name, extension>> ]_vars

\* Two saves in a row succeeded and wrote one path
C13_Witness ==
    /\ save_calls = 2 /\ writes = 2
    /\ Notified("DEEP_NOTIF_SUCCESS")
    /\ last_path = directory \o <<name>> \o <<extension>>

\* A path without repeated separators
RECURSIVE NormPath(_)
NormPath(path) ==
    IF Len(path) < 2 THEN path
    ELSE IF path[1] = "/" /\ path[2] = "/" THEN NormPath(Tail(path))
    ELSE <<path[1]>> \o NormPath(Tail(path))

\* The extension the claim gives each format
FormatExtension(method) ==
    IF method = "DEEP_SAVE_NET_FORMAT_ONNX" THEN ".onnx" ELSE ".model"

\* C14: save_model writes to the path made of the directory, a path
\* separator, the name and the extension, the extension being .onnx for the
\* ONNX format and .model for the native one.
C14_PathHasSeparator ==
    last_path # None
    => NormPath(last_path)
         = NormPath(directory \o <<"/">> \o <<name>> \o <<FormatExtension(save_method)>>)

\* C15: when the improvement check observes a metric whose comparison mode is
\* neither LOWER_IS_BETTER nor HIGHER_IS_BETTER, a fatal notification is
\* emitted, whether a best metric is held or not.
C15_UnknownModeIsFatal ==
    [][ Observed("DEEP_COMPARE_OTHER")
        => Notified("DEEP_NOTIF_FATAL")' ]_vars

\* C15 (the case of a held best metric): an unknown mode was observed after
\* a first observation had set the best metric
C15_Witness ==
    /\ n_obs = 2
    /\ cur_metric.condition = "DEEP_COMPARE_OTHER"
    /\ best_overwatch_metric # cur_metric
    /\ Notified("DEEP_NOTIF_FATAL")

\* n is the ceiling of length / size: the least n with n * size >= length
IsCeil(n, length, size) ==
    /\ n \in Nat
    /\ n * size >= length
    /\ n > 0 => (n - 1) * size < length

\* compute_num_minibatches is the ceiling on every checked pair
ComputesCeiling ==
    \A length \in 0..CheckedLength, size \in 1..CheckedBatchSize :
        IsCeil(compute_num_minibatches(length, size), length, size)

\* C16: compute_num_minibatches(length_dataset, batch_size) is the ceiling of
\* length_dataset / batch_size for every length >= 0 and batch size >= 1
\* (3 for 10 and 4, 3 for 12 and 4); the Trainer stores that number as
\* num_minibatches, and when the minibatch loop of an epoch has ended it has
\* processed exactly num_minibatches minibatches.
C16_NumMinibatches ==
    /\ ComputesCeiling
    /\ compute_num_minibatches(10, 4) = 3
    /\ compute_num_minibatches(12, 4) = 3
    /\ num_minibatches = compute_num_minibatches(length_dataset, batch_size)
    /\ pc = "epoch_end" => minibatch_index = num_minibatches
    /\ pc = "minibatch" => minibatch_index < num_minibatches

\* An epoch ended whose dataset is not a multiple of the batch size: the
\* ragged minibatch was processed
C16_Witness ==
    /\ pc = "epoch_end"
    /\ length_dataset % batch_size # 0
    /\ num_minibatches = (length_dataset \div batch_size) + 1
    /\ minibatch_index = num_minibatches
    /\ n_batch_end = num_minibatches

\* A step in which the recovery flow, answered by the operator, calls save_model
FlowSaved == saver_pc # "idle" /\ op' = "answer" /\ save_calls' = save_calls + 1

\* The save method a format answer names
ChosenMethod(r) ==
    IF Lower(r) = Str_onnx THEN "DEEP_SAVE_NET_FORMAT_ONNX"
    ELSE "DEEP_SAVE_NET_FORMAT_PYTORCH"

\* C11: in the recovery flow the operator chooses an output format by
\* declining the retry, accepting another format and naming it; the flow
\* saves either on a retry the operator asked for or on that choice, and the
\* save after a choice uses the chosen format: save_method, the extension and
\* the path written are those of the named format.
C11_ChosenFormatIsUsed ==
    [][ FlowSaved
        => \/ saver_pc = "retry" /\ Lower(response) # Str_n
           \/ /\ saver_pc = "format"
              /\ Lower(response') \in {Str_pytorch, Str_onnx}
              /\ save_method' = ChosenMethod(response')
              /\ extension' = FormatExtension(save_method')
              /\ last_path' = directory \o <<name>> \o <<extension'>> ]_vars

\* A step in which the operator answers n at a prompt of the recovery flow
Declined == saver_pc # "idle" /\ op' = "answer" /\ Lower(response') = Str_n

\* C12: an operator who declines the retry and the other format reaches the
\* abort confirmation; there y terminates the process and n restarts the flow
\* at the retry prompt, so that the flow goes on until a save is attempted
\* again or the process is terminated.
C12_AbortConfirmation ==
    /\ [][ RecoveryAnswered("close")
            => /\ Lower(response') = Str_y => proc' = "exited"
               /\ Lower(response') = Str_n
                    => proc' = "running" /\ saver_pc' = "retry" ]_vars
    /\ ([]<><<Declined>>_vars => <>(saver_pc = "close"))

\* A step that is one dispatch pass of the Thalamus
Dispatched == op' = "dispatch"

\* The receiver the Saver registers for an event, and the arguments it declares
ClaimedReceiver(event) ==
    CASE event = "DEEP_EVENT_OVERWATCH_METRIC_COMPUTED" -> "is_saving_required"
      [] event = "DEEP_EVENT_ON_TRAINING_END" -> "on_training_end"
      [] event = "DEEP_EVENT_SAVE_MODEL" -> "save_model"
      [] OTHER -> "none"

ClaimedArguments(receiver) ==
    IF receiver = "is_saving_required" THEN {"current_overwatch_metric"} ELSE {"model"}

\* The positions in the queue of the signals that have a receiver, oldest first
Handled(queue) ==
    SelectSeq([i \in 1..Len(queue) |-> i],
              LAMBDA i : ClaimedReceiver(queue[i].event) # "none")

C18_EmittedInsideIsQueued ==
    [][ (Dispatched /\ proc' = "running")
        => /\ Len(signals') = Len(Pending(signals,
                                  {"DEEP_EVENT_OVERWATCH_METRIC_COMPUTED"}))
           /\ \A i \in DOMAIN signals' :
                signals'[i].event = "DEEP_EVENT_SAVING_REQUIRED"
           /\ \A k \in DOMAIN delivered' : delivered'[k].signal \in DOMAIN signals ]_vars

\* A pass in which is_saving_required ran twice has left its two signals queued
C18_Witness ==
    /\ op = "dispatch" /\ proc = "running"
    /\ Len(delivered) = 2
    /\ \A k \in 1..2 : delivered[k].receiver = "is_saving_required"
    /\ Len(signals) = 2
    /\ \A i \in 1..2 : signals[i].event = "DEEP_EVENT_SAVING_REQUIRED"

\* An item of a configuration list that int() accepts
ItemConverts(item) == TypeOf(item) = "str" /\ int(item).raised = "none"

\* The items of a list converted one by one, in their order
ConvertedItems(items) == [i \in DOMAIN items |-> int(items[i]).value]

\* C19: the coercion of a list-typed parameter raises nothing; when an item
\* of the current list fails to convert the result is exactly the declared
\* default, and when every item converts it is the list of the converted
\* items in their order.
C19_ListCoercionFallsBack ==
    (/\ converted # None
     /\ converted.d_type.is_list
     /\ TypeOf(converted.value) = "list")
    => /\ converted.result.raised = "none"
       /\ converted.result.value =
            IF \A i \in DOMAIN converted.value.items :
                    ItemConverts(converted.value.items[i])
            THEN PyList(ConvertedItems(converted.value.items))
            ELSE converted.default

\* The parameters DEEP_CONFIG declares below a dictionary, by their path
RECURSIVE DeclaredParameters(_, _)
DeclaredParameters(dictionary, sub_space) ==
    UNION {LET item == dictionary.items[i]
           IN IF IsLeaf(item.value) THEN {sub_space \o <<item.key>>}
              ELSE DeclaredParameters(item.value, sub_space \o <<item.key>>) :
           i \in DOMAIN dictionary.items}

\* C20: check_config completes without raising for every configuration, and
\* leaves a configuration that holds every declared parameter.
C20_CheckConfigNeverFails ==
    op = "check_config"
    => /\ exc = "none" /\ proc = "running"
       /\ \A path \in DeclaredParameters(DEEP_CONFIG, <<>>) :
             Namespace_get(config, path).raised = "none"

\* The default DEEP_CONFIG declares for the parameter at a path
RECURSIVE DeclaredDefault(_, _)
DeclaredDefault(dictionary, path) ==
    LET i == CHOOSE j \in DOMAIN dictionary.items : dictionary.items[j].key = path[1]
    IN IF Len(path) = 1 THEN dictionary.items[i].value.default
       ELSE DeclaredDefault(dictionary.items[i].value, Tail(path))

\* C21: when check_config returns, every parameter DEEP_CONFIG declares, at
\* any depth, exists in the configuration at its path, and a parameter that
\* was absent before the call holds exactly its declared default.
C21_ConfigIsComplete ==
    [][ (op' = "check_config" /\ exc' = "none")
        => \A path \in DeclaredParameters(DEEP_CONFIG, <<>>) :
             /\ Namespace_get(config', path).raised = "none"
             /\ Namespace_get(config, path).raised # "none"
                  => Namespace_get(config', path).value = DeclaredDefault(DEEP_CONFIG, path)
      ]_vars

\* check_config returned after it added the parameter data.loader.workers,
\* which no configuration file sets to its default
C21_Witness ==
    /\ op = "check_config" /\ exc = "none"
    /\ Namespace_get(config, <<"data", "loader", "workers">>) = Returned(PyInt(1))

\* C22: a Namespace that was saved and loaded into a fresh Namespace is the
\* Namespace that was saved: the same keys at every level, the same strings,
\* numbers, nested Namespaces and sequences of scalars.
C22_SaveLoadRoundTrip ==
    loaded # None => loaded = Returned(config)

\* C23: store_config keeps a deep copy. The stored copy equals the live
\* configuration when it is taken and store_config leaves the live
\* configuration as it is; no other operation changes the stored copy,
\* whatever it does to the live configuration; restore_config makes the live
\* configuration equal to the stored copy, every time it is called.
C23_StoredCopyIsDeep ==
    [][ /\ op' = "store_config"
            => /\ Value(heap', _config'.id) = Value(heap, config.id)
               /\ Value(heap', config'.id) = Value(heap, config.id)
        /\ op' # "store_config"
            => Value(heap', _config'.id) = Value(heap, _config.id)
        /\ op' = "restore_config"
            => Value(heap', config'.id) = Value(heap, _config.id)
      ]_vars

\* A restore_config that undid a change of the live configuration
C23_Witness ==
    /\ op = "restore_config"
    /\ \E id \in DOMAIN heap :
          /\ id \notin {config.id, _config.id}
          /\ "data" \in DOMAIN heap[id]
          /\ Value(heap, id) # Value(heap, _config.id)
    /\ Value(heap, config.id) = Value(heap, _config.id)
    /\ "data" \in DOMAIN heap[config.id]

\* The steps of a minibatch the order is claimed for
ClaimedMinibatchOrder ==
    <<"optimizer.zero_grad", "model", "compute_metrics(losses)",
      "compute_metrics(metrics)", "apply_weight", "sum_dict",
      "total_loss.backward", "optimizer.step", "detach", "callbacks.on_batch_end">>

IsClaimedMinibatchStep(c) == c \in Range(ClaimedMinibatchOrder)

\* C24: in every minibatch the gradients are cleared, the model is run, the
\* losses and the metrics are computed, the losses are weighted and summed,
\* backward runs, the optimizer steps once, the values are detached and
\* on_batch_end is called, in this order and each once; there are always as
\* many optimizer steps as on_batch_end calls, and the step that validates an
\* epoch takes no optimizer step.
C24_MinibatchOrder ==
    [][ /\ n_batch_end' = n_batch_end + 1
            => SelectSeq(calls', IsClaimedMinibatchStep) = ClaimedMinibatchOrder
        /\ n_batch_end' # n_batch_end => n_batch_end' = n_batch_end + 1
        /\ n_optimizer_step' = n_batch_end'
        /\ n_evaluate' # n_evaluate
            => /\ n_optimizer_step' = n_optimizer_step
               /\ \A i \in DOMAIN calls' : calls'[i] # "optimizer.step"
      ]_vars

\* The second minibatch of a session, after an epoch was validated
C24_Witness ==
    /\ op = "on_batch_end" /\ calls = MinibatchSteps
    /\ n_batch_end = 2 /\ n_optimizer_step = 2 /\ n_evaluate = 1

\* The step of __train that follows the minibatches of an epoch
EpochCloses == pc = "epoch_end" /\ op' = "on_epoch_end"

\* C25: an epoch starts when every earlier epoch has ended; a minibatch ends
\* inside a started epoch that has not ended; the epoch is closed after all
\* its minibatches by the shuffle (when one is set), the reset, one
\* validation pass and on_epoch_end, in this order. (Without a Tester the
\* step stops after the reset: that case is C27's.)
C25_EpochOrder ==
    [][ /\ n_epoch_start' # n_epoch_start
            => /\ n_epoch_start' = n_epoch_start + 1
               /\ n_epoch_end = n_epoch_start
        /\ n_batch_end' # n_batch_end
            => /\ n_epoch_start = n_epoch_end + 1
               /\ n_epoch_start' = n_epoch_start /\ n_epoch_end' = n_epoch_end
        /\ EpochCloses
            => /\ n_epoch_start = n_epoch_end + 1
               /\ minibatch_index = DataLoaderLen
               /\ n_batch_end' = n_batch_end
               /\ calls' =
                    (IF shuffle = "None" THEN <<>> ELSE <<"dataset.shuffle">>)
                    \o <<"dataset.reset">>
                    \o (IF tester = "None" THEN <<>>
                        ELSE <<"tester.evaluate", "callbacks.on_epoch_end">>)
               /\ tester # "None"
                    => /\ n_evaluate' = n_evaluate + 1
                       /\ n_epoch_end' = n_epoch_end + 1
        /\ n_epoch_end' # n_epoch_end => EpochCloses
      ]_vars

\* The second epoch of a session with a shuffle and a Tester was closed
\* after its minibatches
C25_Witness ==
    /\ op = "on_epoch_end" /\ n_epoch_end = 2 /\ n_epoch_start = 2
    /\ shuffle # "None" /\ tester # "None"
    /\ n_batch_end = 2 * DataLoaderLen /\ DataLoaderLen > 1
    /\ calls = <<"dataset.shuffle", "dataset.reset", "tester.evaluate",
                 "callbacks.on_epoch_end">>

\* The passes of __train that were begun
PassesBegun == n_train_begin + n_unpause

\* C26: the step that ends a pass comes when no epoch of the pass is open and
\* the epoch loop is exhausted; it calls on_training_end, then pause, then
\* (through fit) the "continue training?" prompt, in this order; the clocks
\* are paused and the prompt is asked by this step only, and each pass that
\* reached its prompt called on_training_end exactly once.
C26_TrainingEndOrder ==
    [][ /\ n_training_end' # n_training_end
            => /\ pc = "training_end"
               /\ n_training_end' = n_training_end + 1
               /\ n_training_end' = PassesBegun
               /\ n_epoch_start = n_epoch_end
               /\ (~InRange(RangeStart(initial_epoch), num_epochs) \/ epoch = num_epochs)
               /\ proc' = "running"
                    => /\ calls' = <<"callbacks.on_training_end", "callbacks.pause",
                                     "Notification(FINISHED_TRAINING)",
                                     "__continue_training">>
                       /\ n_pause' = n_pause + 1 /\ paused'
                       /\ pc' = "continue_prompt"
               /\ proc' # "running" => calls' = <<"callbacks.on_training_end">>
        /\ n_pause' # n_pause => n_training_end' # n_training_end
        /\ (pc' = "continue_prompt" /\ pc # "continue_prompt")
            => n_training_end' # n_training_end
        /\ pc' \in {"continue_prompt", "epochs_prompt", "done"}
            => /\ n_training_end' = PassesBegun'
               /\ n_pause' = n_training_end'
      ]_vars

\* A resumed pass ran an epoch and reached its prompt
C26_Witness ==
    /\ op = "on_training_end" /\ pc = "continue_prompt"
    /\ n_training_end = 2 /\ n_unpause = 1 /\ n_pause = 2
    /\ n_epoch_end >= 2 /\ epoch = num_epochs

\* C27: the step that closes an epoch runs exactly one validation pass when a
\* Tester is configured and none otherwise, and in both cases it completes
\* and calls on_epoch_end.
C27_TesterIsOptional ==
    [][ EpochCloses
        => /\ n_evaluate' = (IF tester = "None" THEN n_evaluate ELSE n_evaluate + 1)
           /\ proc' = "running" /\ exc' = "none"
           /\ n_epoch_end' = n_epoch_end + 1
           /\ calls'[Len(calls')] = "callbacks.on_epoch_end"
      ]_vars

\* C28: what on_batch_end is handed (the total loss, every loss, every
\* metric) is no longer attached to the graph of backward, and detach runs
\* only once backward and optimizer.step of the batch have run.
HandedValues ==
    {batch.handed.total_loss}
    \cup {batch.handed.result_losses[key] : key \in DOMAIN batch.handed.result_losses}
    \cup {batch.handed.result_metrics[key] : key \in DOMAIN batch.handed.result_metrics}

Executed == SubSeq(MinibatchSteps, 1, batch.done)

C28_HandedValuesAreDetached ==
    /\ batch.handed # None =>
          \A value \in HandedValues : value.type = "Tensor" => ~value.graph
    /\ \A i \in 1..batch.done :
          Executed[i] = "detach" =>
              /\ batch.raised = "none" /\ batch.grad /\ batch.stepped = 1
              /\ \E j, k \in 1..(i - 1) :
                    /\ Executed[j] = "total_loss.backward"
                    /\ Executed[k] = "optimizer.step"

C28_Witness ==
    /\ batch.handed # None
    /\ batch.metrics = ("accuracy" :> "Tensor")
    /\ batch.losses = {"loss", "aux"}
    /\ batch.grad /\ batch.stepped = 1

\* C29: clean_single_element_list maps field by field: a list of one
\* element becomes the element, an empty list becomes None, anything else
\* is returned as it is; the fields keep their number and their order.
C29_CleanIsFieldByField ==
    batch.done >= 1 =>
        /\ Len(batch.cleaned) = Len(batch.minibatch)
        /\ \A i \in 1..Len(batch.minibatch) :
              LET entry == batch.minibatch[i]
              IN  batch.cleaned[i] =
                      IF TypeOf(entry) = "list" /\ Len(entry.items) = 1
                      THEN entry.items[1]
                      ELSE IF TypeOf(entry) = "list" /\ entry.items = <<>>
                      THEN None
                      ELSE entry

C29_Witness ==
    /\ batch.done >= 1
    /\ batch.minibatch = <<PyList(<<PyList(<<>>)>>), PyList(<<>>),
                           PyList(<<PyInt(1), PyInt(2)>>)>>
    /\ batch.cleaned = <<PyList(<<>>), None, PyList(<<PyInt(1), PyInt(2)>>)>>

\* C30: a metric_computed event that reaches the Saver, or a call of
\* on_overwatch_metric_computed, makes the Saver add at most one
\* saving-required signal or call save_model at most once, never both and
\* never twice, whatever the save condition.
ObservationHandled ==
    op' \in {"OVERWATCH_METRIC_COMPUTED", "on_overwatch_metric_computed"}

C30_AtMostOneSaveTrigger ==
    [][ ObservationHandled
        => (Len(signals') - Len(signals)) + (save_calls' - save_calls) <= 1
      ]_vars

C30_Witness ==
    /\ op = "OVERWATCH_METRIC_COMPUTED"
    /\ n_obs = 2 /\ Len(signals) = 2 /\ save_calls = 0
    /\ signals[2].saving_required
    /\ save_condition = "DEEP_SAVE_CONDITION_END_EPOCH"

\* C31: no operation of the Saver (an observed metric, the end of training,
\* save_model, the questions after a failed save) changes the save
\* condition, the directory or the name chosen at construction.
C31_PolicyIsFixed ==
    [][ /\ save_condition' = save_condition
        /\ directory' = directory
        /\ name' = name
      ]_vars

C31_Witness ==
    /\ op = "answer" /\ saver_pc = "idle" /\ proc = "running"
    /\ save_condition = "DEEP_SAVE_CONDITION_END_TRAINING"
    /\ save_calls = 2 /\ n_obs >= 1

\* C32: a pass resumed after the operator added k > 0 epochs starts at the
\* epoch that follows the last completed one (and so runs k epochs, up to
\* the new num_epochs, none skipped).
ResumedPassBegins ==
    /\ pc = "fit" /\ ~first_training /\ op' = "train_begin"
    /\ epoch = initial_epoch - 1

C32_ResumedEpochsAreContiguous ==
    [][ ResumedPassBegins => pc' = "epoch_start" /\ epoch' = epoch + 1 ]_vars

\* C33: "Model and weights saved" is reported only by an operation that
\* wrote a checkpoint, and at most once per checkpoint written: a save_model
\* whose serialization failed reports no success, a retried save included.
SavedNotifications(reported) ==
    Cardinality({i \in DOMAIN reported :
                    reported[i] = [type |-> "DEEP_NOTIF_SUCCESS",
                                   msg |-> "Model and weights saved"]})

UnknownModeObserved ==
    /\ n_obs' = n_obs + 1
    /\ cur_metric'.condition \notin {"DEEP_COMPARE_SMALLER", "DEEP_COMPARE_BIGGER"}

C34_UnknownModeChangesNothing ==
    [][ UnknownModeObserved
        => /\ best_overwatch_metric' = best_overwatch_metric
           /\ \A i \in (DOMAIN signals') \ (DOMAIN signals) :
                  ~signals'[i].saving_required
      ]_vars

\* C35: of the sub-commands of a line, those a filter rule matches are
\* reported with a warning and never reach exec, wherever they stand and
\* however many they are; the others reach exec in their order.
Warned == SelectSeq(notifs, LAMBDA n : n.type = "DEEP_NOTIF_WARNING")

C35_FilteredNeverExecuted ==
    op = "__execute_command" =>
        /\ \A i \in DOMAIN execs : execs[i] \notin Filtered
        /\ Len(Warned) = Len(SelectSeq(command, LAMBDA c : c \in Filtered))

\* C36: load_config with a missing directory reports an error, raises
\* nothing and leaves config and _config as they were, the call of
\* Brain.__init__ included; with a directory, config holds one section per
\* expected file found and _config equals config.
DirectoryNotFound ==
    \E i \in DOMAIN notifs' : notifs'[i].msg = "DEEP_MSG_DIR_NOT_FOUND"

FilesFound ==
    Cardinality({i \in DOMAIN notifs' : notifs'[i].msg = "DEEP_MSG_LOAD_CONFIG_FILE"})

C36_LoadConfigIsSafe ==
    [][ op' = "load_config"
        => IF DirectoryNotFound
           THEN exc' = "none" /\ config' = config /\ _config' = _config
           ELSE /\ exc' = "none"
                /\ Cardinality(DOMAIN config'.d) = FilesFound
                /\ _config' = config'
      ]_vars

\* C37: in one session on_train_begin is called once, by the first pass;
\* pause and unpause alternate: a resumed pass starts with unpause, a pass
\* ends with pause, and the callbacks are paused while the questions of
\* __continue_training wait for an answer.
AtPrompt == pc \in {"continue_prompt", "epochs_prompt"}

C37_PauseAlternates ==
    /\ n_train_begin = (IF pc = "fit" /\ first_training THEN 0 ELSE 1)
    /\ n_pause - n_unpause = (IF paused THEN 1 ELSE 0)
    /\ AtPrompt => paused
    /\ pc \in {"epoch_start", "minibatch", "epoch_end", "training_end"} => ~paused

C37_Witness ==
    /\ pc = "continue_prompt" /\ paused
    /\ n_train_begin = 1 /\ n_unpause = 1 /\ n_pause = 2
    /\ n_epoch_end = 2

\* C38: every pass of fit reaches the end of training (on_training_end is
\* called and the operator is asked whether to continue), and once the
\* operator has answered "n" nothing happens any more.
PassStarts == pc = "fit" /\ proc = "running" /\ save_calls < MaxSaveCalls

TrainingEnded == op = "on_training_end"

C38_FitTerminates ==
    /\ PassStarts ~> TrainingEnded
    /\ [][pc = "done" => UNCHANGED vars]_vars

====
